---- MODULE Spec2Model ----
(***************************************************************************)
(* Model of secretsManagerAPI: the JWT manager and middleware              *)
(* (internal/auth), the Kubernetes client wrapper (internal/k8s), and the  *)
(* user and secret handlers (internal/handlers) behind the router          *)
(* (internal/server).                                                      *)
(*                                                                         *)
(* Five specifications share the module:                                   *)
(*   SpecJWT  drives Generate / Verify / JWTMiddleware as pure functions   *)
(*            of token, key and clock, with a running clock;               *)
(*   Spec     drives the HTTP handlers, one request at a time, backend     *)
(*            call by backend call, interleaved with the cluster's steps.  *)
(*   SpecWait drives Client.CreateNamespace / DeleteNamespace alone, with  *)
(*            the clock running, so that their deadlines are counted.      *)
(*   SpecStore drives Client.CreateSecret / GetSecret / UpdateSecret /      *)
(*            DeleteSecret alone, with maps of several keys and values.    *)
(*   SpecRace drives two requests of one identity whose handlers overlap,  *)
(*            Register against Register and ChangeUserPassword against     *)
(*            ChangeUserPassword.                                          *)
(***************************************************************************)
EXTENDS Integers, FiniteSets, Sequences, TLC

(***************************************************************************)
(* Clock.  Time is counted in ticks; TicksPerSec ticks make one second, so *)
(* that the one-second precision of the JWT NumericDate is observable.     *)
(***************************************************************************)
TicksPerSec == 2
StartTime == 2
MaxTime == 7

(* jwt.NewNumericDate: t.Truncate(jwt.TimePrecision), TimePrecision = 1s *)
NewNumericDate(t) == (t \div TicksPerSec) * TicksPerSec

(***************************************************************************)
(* Token codec (JWTManager).                                               *)
(***************************************************************************)
Users == {"a", "b"}
Keys == {"K1", "K2"}
HMACAlgs == {"HS256", "HS384"}
Algs == HMACAlgs \cup {"RS256"}

NoExp == 0 - 1
NoClaims == [Username |-> "", ExpiresAt |-> NoExp, IssuedAt |-> NoExp]

(* the registered claims and username carried in the token payload *)
ClaimsOf(tok) == [Username |-> tok.Username, ExpiresAt |-> tok.ExpiresAt,
                  IssuedAt |-> tok.IssuedAt]

(* token.SignedString: the signature binds algorithm, key and payload *)
SignedString(alg, key, claims) == <<alg, key, claims>>

MkToken(alg, key, claims) ==
    [wf |-> TRUE, alg |-> alg, Username |-> claims.Username,
     ExpiresAt |-> claims.ExpiresAt, IssuedAt |-> claims.IssuedAt,
     sig |-> SignedString(alg, key, claims)]

(* a string that does not parse as header.payload.signature *)
Malformed ==
    [wf |-> FALSE, alg |-> "", Username |-> "", ExpiresAt |-> NoExp,
     IssuedAt |-> NoExp, sig |-> SignedString("", "", NoClaims)]

(* Generate with the duration left out of the expiry *)
Generate_NoDuration(j, username, t1, t2) ==
    MkToken("HS256", j.SecretKey,
            [Username |-> username,
             ExpiresAt |-> NewNumericDate(t1),
             IssuedAt |-> NewNumericDate(t2)])
(* JWTManager.Generate; t1 and t2 are the two readings of time.Now() *)
Generate(j, username, t1, t2) ==
    MkToken("HS256", j.SecretKey,
            [Username |-> username,
             ExpiresAt |-> NewNumericDate(t1 + j.TokenDuration),
             IssuedAt |-> NewNumericDate(t2)])

(* the key function handed to jwt.ParseWithClaims *)
KeyFuncAccepts(alg) == alg \in HMACAlgs

(* a signature check that accepts whatever key the token was signed with *)
SignatureValid_AnyKey(j, tok) ==
    tok.sig = SignedString(tok.alg, tok.sig[2], ClaimsOf(tok))
(* signature check of jwt.Parser against the manager's key *)
SignatureValid(j, tok) ==
    tok.sig = SignedString(tok.alg, j.SecretKey, ClaimsOf(tok))

(* a validator that grants one second of leeway *)
NotExpired_Leeway(tok, t) ==
    tok.ExpiresAt = NoExp \/ t < tok.ExpiresAt + TicksPerSec
(* jwt.Validator: exp is checked when present, with no leeway *)
NotExpired(tok, t) == tok.ExpiresAt = NoExp \/ t < tok.ExpiresAt

(* JWTManager.Verify at clock reading t *)
Verify(j, tok, t) ==
    IF ~tok.wf
      THEN [ok |-> FALSE, err |-> "token is malformed", Username |-> ""]
    ELSE IF ~KeyFuncAccepts(tok.alg)
      THEN [ok |-> FALSE, err |-> "unexpected signing method", Username |-> ""]
    ELSE IF ~SignatureValid(j, tok)
      THEN [ok |-> FALSE, err |-> "signature is invalid", Username |-> ""]
    ELSE IF ~NotExpired(tok, t)
      THEN [ok |-> FALSE, err |-> "token is expired", Username |-> ""]
    ELSE [ok |-> TRUE, err |-> "", Username |-> tok.Username]

(***************************************************************************)
(* Identity carrier and middleware.                                        *)
(***************************************************************************)
EmptyCtx == [hasUsername |-> FALSE, username |-> "",
             hasSecretName |-> FALSE, secretName |-> ""]
WithUsername(ctx, username) ==
    [ctx EXCEPT !.hasUsername = TRUE, !.username = username]
(* a lookup that takes the empty string for no value *)
GetUsername_NonEmpty(ctx) == [val |-> ctx.username, ok |-> ctx.username # ""]
GetUsername(ctx) == [val |-> ctx.username, ok |-> ctx.hasUsername]
(* a lookup that falls back on a default identity *)
UsernameFromContext_Default(ctx) ==
    [val |-> IF ctx.hasUsername THEN ctx.username ELSE "a", ok |-> TRUE]
UsernameFromContext(ctx) == [val |-> ctx.username, ok |-> ctx.hasUsername]
(* a wrapper that starts from a fresh context *)
WithSecretName_Fresh(ctx, name) ==
    [ctx EXCEPT !.hasUsername = FALSE, !.username = "",
                !.hasSecretName = TRUE, !.secretName = name]
WithSecretName(ctx, name) ==
    [ctx EXCEPT !.hasSecretName = TRUE, !.secretName = name]
GetSecretName(ctx) == [val |-> ctx.secretName, ok |-> ctx.hasSecretName]

(* An Authorization header: absent, or the pieces strings.SplitN yields:   *)
(* scheme is the text before the first space, "" when there is no space.   *)
NoHeader == [present |-> FALSE, scheme |-> "", rest |-> Malformed]
Schemes == {"Bearer", "bearer", "Basic"}
HeaderOf(scheme, tok) == [present |-> TRUE, scheme |-> scheme, rest |-> tok]
(* a token sent with no "Bearer " prefix: SplitN yields a single part *)
BareHeader(tok) == [present |-> TRUE, scheme |-> "", rest |-> tok]

ToLower(s) == IF s = "Bearer" THEN "bearer" ELSE s

(* a middleware that lets a token through whatever Verify says *)
JWTMiddleware_NoVerify(j, hdr, t) ==
    IF ~hdr.present
      THEN [pass |-> FALSE, status |-> 401,
            msg |-> "Authorization header required", ctx |-> EmptyCtx]
    ELSE IF hdr.scheme = "" \/ ToLower(hdr.scheme) # "bearer"
      THEN [pass |-> FALSE, status |-> 401,
            msg |-> "Authorization header must be Bearer <token>", ctx |-> EmptyCtx]
    ELSE [pass |-> TRUE, status |-> 200, msg |-> "",
          ctx |-> WithUsername(EmptyCtx, hdr.rest.Username)]
(* JWTMiddleware up to the call of next: reject with 401 or pass a context *)
JWTMiddleware(j, hdr, t) ==
    IF ~hdr.present
      THEN [pass |-> FALSE, status |-> 401,
            msg |-> "Authorization header required", ctx |-> EmptyCtx]
    ELSE IF hdr.scheme = "" \/ ToLower(hdr.scheme) # "bearer"
      THEN [pass |-> FALSE, status |-> 401,
            msg |-> "Authorization header must be Bearer <token>", ctx |-> EmptyCtx]
    ELSE IF ~Verify(j, hdr.rest, t).ok
      THEN [pass |-> FALSE, status |-> 401,
            msg |-> "Invalid or expired token", ctx |-> EmptyCtx]
    ELSE [pass |-> TRUE, status |-> 200, msg |-> "",
          ctx |-> WithUsername(EmptyCtx, Verify(j, hdr.rest, t).Username)]

(***************************************************************************)
(* State.                                                                  *)
(***************************************************************************)
VARIABLES
    now,      \* the wall clock, in ticks
    jtok,     \* token codec harness: the token under study
    jorigin,  \* how jtok came about: generated (by which manager, when) or forged
    jlast,    \* the last Verify / JWTMiddleware application to jtok
    nsPhase,  \* cluster: lifecycle phase of every namespace
    secrets,  \* cluster: the Secret objects of every namespace
    tokens,   \* the tokens clients hold and may present
    wk,       \* per worker: the request in progress
    last,     \* the request answered last, with its response
    hist,     \* per identity: the secret of its last successful Register; ""
              \* before any; "gone" once DeleteUser has succeeded, "again"
              \* once a later Register has created the namespace anew;
              \* "void" from a call of ChangeUserPassword or DeleteUser on
    authFailMsgs, \* the messages Login has answered authentication failures with
    call,     \* client harness: the CreateNamespace / DeleteNamespace call
              \* under study, with its deadline and its count of polls
    served    \* race harness: the answers delivered so far, in order

jvars == <<jtok, jorigin, jlast>>
mvars == <<nsPhase, secrets, tokens, wk, last, hist, authFailMsgs, call,
          served>>
vars == <<now, jtok, jorigin, jlast, nsPhase, secrets, tokens, wk, last,
          hist, authFailMsgs, call, served>>

(***************************************************************************)
(* Data of the handlers and of the cluster.                                *)
(***************************************************************************)
Workers == {"w1"}
Passwords == {"p1", "p2"}
SecretNames == {"credentials", "s1"}
DataKeys == {"username", "password", "x"}

(* a map value is a string, a bcrypt hash, or absent from the map *)
Absent == <<"absent", "">>
Str(v) == <<"str", v>>
NoData == [k \in DataKeys |-> Absent]
NoSecret == [exists |-> FALSE, data |-> NoData]

(* a hash that does not depend on the password *)
GenerateFromPassword_Fixed(pw) == <<"bcrypt", "p1">>
(* bcrypt.GenerateFromPassword: one-way; the salt is left out *)
GenerateFromPassword(pw) == <<"bcrypt", pw>>
(* a comparison that accepts any password *)
CompareHashAndPassword_Any(h, pw) == h[1] = "bcrypt"
(* bcrypt.CompareHashAndPassword: nil exactly for a hash of this password *)
CompareHashAndPassword(h, pw) == h[1] = "bcrypt" /\ h[2] = pw

(* the request bodies of the secret routes *)
DataChoices ==
    {[NoData EXCEPT !["x"] = Str("v1")]}

(* main: auth.NewJWTManager(mySecretKey, time.Hour*24), scaled to ticks *)
TokenDuration == 4
ProdManager == [SecretKey |-> "K1", TokenDuration |-> TokenDuration]

(* a scope name that does not depend on the identity *)
Namespace_Shared(username) == <<"user-", "a">>
(* namespace := "user-" + username *)
Namespace(username) == <<"user-", username>>
(* the scopes the cluster may hold *)
Namespaces == {<<"user-", u>> : u \in Users}

(* the API server folds StringData into Data, key by key *)
(* a merge that keeps the stored value of a key that has one *)
MergeStringData_KeepOld(data, stringData) ==
    [k \in DataKeys |-> IF data[k] # Absent THEN data[k] ELSE stringData[k]]
MergeStringData(data, stringData) ==
    [k \in DataKeys |-> IF stringData[k] # Absent THEN stringData[k] ELSE data[k]]

Routes == {"Register", "Login", "ChangeUserPassword", "DeleteUser",
           "CreateSecret", "GetSecret", "UpdateSecret", "DeleteSecret"}
ProtectedRoutes == Routes \ {"Register", "Login"}
(* the routes wrapped in withSecretName *)
NamedRoutes == {"GetSecret", "UpdateSecret", "DeleteSecret"}

NoResp == [status |-> 0, msg |-> "", hasToken |-> FALSE, token |-> Malformed,
           hasData |-> FALSE, data |-> NoData]
Resp(status, msg) == [NoResp EXCEPT !.status = status, !.msg = msg]

(* a worker between requests *)
W0 == [pc |-> "idle", route |-> "", via |-> "", hdr |-> NoHeader,
       ctx |-> EmptyCtx, namespace |-> <<"", "">>,
       user |-> "", pw |-> "", name |-> "", data |-> NoData,
       fresh |-> FALSE,
       \* bookkeeping about the request, read by the properties only
       passed |-> FALSE,      \* the middleware called next
       invoked |-> FALSE,     \* the route's handler ran
       calls |-> {},          \* namespaces addressed by backend calls
       ops |-> {},            \* API operations of those calls
       accepted |-> FALSE,    \* Namespaces().Create / Delete returned no error
       nsDone |-> FALSE,      \* CreateNamespace / DeleteNamespace returned nil
       sawActive |-> FALSE,   \* a poll observed the namespace Active
       sawNotFound |-> FALSE, \* the backend reported the namespace NotFound
       faulted |-> FALSE,     \* a backend call failed transiently
       resp |-> NoResp]

(* the tokens naming u that a client may hold at start: one issued by the  *)
(* service just now, one issued a full duration ago, and one made by a     *)
(* party that holds another key                                            *)
TokensOf(u) ==
    {Generate(ProdManager, u, StartTime, StartTime),
     Generate(ProdManager, u, StartTime - TokenDuration, StartTime - TokenDuration),
     Generate([SecretKey |-> "K2", TokenDuration |-> TokenDuration], u,
              StartTime, StartTime)}

(* no client call made yet, and none before it *)
NoPrev == [kind |-> "", ns |-> <<"", "">>, result |-> ""]
NoCall == [pc |-> "idle", kind |-> "", ns |-> <<"", "">>, deadline |-> 0,
           polls |-> 0, faulted |-> FALSE, result |-> "", prev |-> NoPrev,
           \* the secret calls: name and values passed, API error, map returned
           name |-> "", data |-> NoData, reason |-> "", got |-> NoData]

MInit ==
    /\ nsPhase = [n \in Namespaces |-> "absent"]
    /\ secrets = [n \in Namespaces |-> [s \in SecretNames |-> NoSecret]]
    /\ \E u \in Users : tokens = TokensOf(u)
    /\ served = <<>>
    /\ wk = [w \in Workers |-> W0]
    /\ last = [W0 EXCEPT !.pc = "none"]
    /\ hist = [u \in Users |-> ""]
    /\ authFailMsgs = {}
    /\ call = NoCall

(***************************************************************************)
(* The cluster (Kubernetes API server and namespace controller), as the    *)
(* client wrapper sees it.  A namespace is absent, creating (it exists but *)
(* a Get does not yet report it Active), active, or deleting (Terminating).*)
(***************************************************************************)
(* Namespaces().Create *)
NsCreateResult(ns) == IF nsPhase[ns] = "absent" THEN "ok" ELSE "AlreadyExists"
(* Namespaces().Get: the phase read, or NotFound *)
NsGetResult(ns) == IF nsPhase[ns] = "absent" THEN "NotFound" ELSE nsPhase[ns]
(* Namespaces().Delete: accepted, or NotFound *)
NsDeleteResult(ns) == IF nsPhase[ns] = "absent" THEN "NotFound" ELSE "ok"
(* a Create that takes the place of whatever is stored under the name *)
SecCreateResult_Upsert(ns, name) ==
    IF nsPhase[ns] = "absent" THEN "NotFound"
    ELSE IF nsPhase[ns] = "deleting" THEN "Forbidden"
    ELSE "ok"
(* Secrets(ns).Create: refused outside a live namespace and on a taken name *)
SecCreateResult(ns, name) ==
    IF nsPhase[ns] = "absent" THEN "NotFound"
    ELSE IF nsPhase[ns] = "deleting" THEN "Forbidden"
    ELSE IF secrets[ns][name].exists THEN "AlreadyExists"
    ELSE "ok"
(* a Get that finds every secret, whatever the cluster holds *)
SecGetResult_AlwaysFound(ns, name) == "ok"
(* Secrets(ns).Get / Delete *)
SecGetResult(ns, name) == IF secrets[ns][name].exists THEN "ok" ELSE "NotFound"
(* an Update that stores the object whether or not the name is taken *)
SecUpdateResult_Upsert(ns, name, fresh) == IF ~fresh THEN "Conflict" ELSE "ok"
(* Secrets(ns).Update of an object read earlier: its resourceVersion must  *)
(* still be the stored one                                                 *)
SecUpdateResult(ns, name, fresh) ==
    IF ~secrets[ns][name].exists THEN "NotFound"
    ELSE IF ~fresh THEN "Conflict"
    ELSE "ok"

(* a write to ns/name outdates the object every other worker has read *)
Outdate(ns, names) ==
    [v \in DOMAIN wk |->
        IF wk[v].pc = "upd_put" /\ wk[v].namespace = ns /\ wk[v].name \in names
        THEN [wk[v] EXCEPT !.fresh = FALSE] ELSE wk[v]]

(* the namespace reports Active *)
BackendActivate(ns) ==
    /\ last.pc # "done"
    /\ nsPhase[ns] = "creating"
    /\ nsPhase' = [nsPhase EXCEPT ![ns] = "active"]
    /\ UNCHANGED <<now, jvars, secrets, tokens, served, call, wk, last, hist, authFailMsgs>>

(* a removal of the namespace that leaves its secrets behind *)
BackendFinalize_KeepsSecrets(ns) ==
    /\ last.pc # "done"
    /\ nsPhase[ns] = "deleting"
    /\ nsPhase' = [nsPhase EXCEPT ![ns] = "absent"]
    /\ UNCHANGED <<now, jvars, secrets, tokens, served, call, wk, last, hist, authFailMsgs>>

(* the namespace controller removes a Terminating namespace and its content *)
BackendFinalize(ns) ==
    /\ last.pc # "done"
    /\ nsPhase[ns] = "deleting"
    /\ nsPhase' = [nsPhase EXCEPT ![ns] = "absent"]
    /\ secrets' = [secrets EXCEPT ![ns] = [s \in SecretNames |-> NoSecret]]
    /\ wk' = Outdate(ns, SecretNames)
    /\ UNCHANGED <<now, jvars, tokens, served, call, last, hist, authFailMsgs>>

(***************************************************************************)
(* Router: what stands between the request and the route's handler.        *)
(***************************************************************************)
(* a router that turns a valid token away once the namespace of its       *)
(* identity is absent                                                      *)
Entry_Revoking(route, via, hdr, methodOk, pathName) ==
    LET mw == JWTMiddleware(ProdManager, hdr, now)
        protected == route \in ProtectedRoutes
        revoked == mw.pass /\ nsPhase[<<"user-", mw.ctx.username>>] = "absent"
        ctx1 == IF protected THEN mw.ctx ELSE EmptyCtx
    IN  IF via = "direct"
          THEN [ok |-> TRUE, passed |-> FALSE, resp |-> NoResp, ctx |-> EmptyCtx]
        ELSE IF protected /\ (~mw.pass \/ revoked)
          THEN [ok |-> FALSE, passed |-> FALSE,
                resp |-> Resp(401, "Invalid or expired token"), ctx |-> EmptyCtx]
        ELSE IF ~methodOk
          THEN [ok |-> FALSE, passed |-> protected,
                resp |-> Resp(405, "Method not allowed"), ctx |-> ctx1]
        ELSE IF route \in NamedRoutes /\ pathName = ""
          THEN [ok |-> FALSE, passed |-> protected,
                resp |-> Resp(400, "Secret name required"), ctx |-> ctx1]
        ELSE [ok |-> TRUE, passed |-> protected, resp |-> NoResp,
              ctx |-> IF route \in NamedRoutes
                        THEN WithSecretName(ctx1, pathName) ELSE ctx1]

(* via = "router": NewRouter's chain for the route (JWTMiddleware on       *)
(* protected routes, the method check, withSecretName on named routes);    *)
(* via = "direct": the handler function called on a bare request.          *)
Entry(route, via, hdr, methodOk, pathName) ==
    LET mw == JWTMiddleware(ProdManager, hdr, now)
        protected == route \in ProtectedRoutes
        ctx1 == IF protected THEN mw.ctx ELSE EmptyCtx
    IN  IF via = "direct"
          THEN [ok |-> TRUE, passed |-> FALSE, resp |-> NoResp, ctx |-> EmptyCtx]
        ELSE IF protected /\ ~mw.pass
          THEN [ok |-> FALSE, passed |-> FALSE,
                resp |-> Resp(mw.status, mw.msg), ctx |-> EmptyCtx]
        ELSE IF ~methodOk
          THEN [ok |-> FALSE, passed |-> protected,
                resp |-> Resp(405, "Method not allowed"), ctx |-> ctx1]
        ELSE IF route \in NamedRoutes /\ pathName = ""
          THEN [ok |-> FALSE, passed |-> protected,
                resp |-> Resp(400, "Secret name required"), ctx |-> ctx1]
        ELSE [ok |-> TRUE, passed |-> protected, resp |-> NoResp,
              ctx |-> IF route \in NamedRoutes
                        THEN WithSecretName(ctx1, pathName) ELSE ctx1]

(* the Authorization headers a client can send *)
RequestHeaders ==
    {NoHeader, HeaderOf("Basic", Malformed)}
        \cup {BareHeader(t) : t \in tokens}
        \cup {HeaderOf("Bearer", t) : t \in tokens \cup {Malformed}}

NoAnswer == [W0 EXCEPT !.pc = "none"]

(* the record of a request that has been answered *)
Done(r, resp) ==
    [r EXCEPT !.pc = "done", !.resp = resp, !.data = NoData, !.fresh = FALSE]

(* the worker's record and the record of the last answer after a step     *)
(* that leaves worker w with record r                                      *)
Step(w, f, r) ==
    /\ wk' = [f EXCEPT ![w] = IF r.pc = "done" THEN W0 ELSE r]
    /\ last' = IF r.pc = "done" THEN r ELSE last

(* the worker's record on entry to the route *)
Enter(route, via, hdr, e) ==
    [W0 EXCEPT !.route = route, !.via = via, !.hdr = hdr, !.ctx = e.ctx,
               !.passed = e.passed, !.invoked = e.ok]

Call(r, ns) == [r EXCEPT !.calls = @ \cup {ns}]
(* the same, with the API operation of the call noted as well *)
CallOp(r, ns, op) == [Call(r, ns) EXCEPT !.ops = @ \cup {op}]
Fault(r) == [r EXCEPT !.faulted = TRUE]

(***************************************************************************)
(* Client.CreateNamespace and Client.DeleteNamespace.  A backend call that *)
(* fails transiently yields "error".                                       *)
(***************************************************************************)
(* a CreateNamespace for which an existing namespace is an error *)
CreateReturnsNil_Never(result) == FALSE
(* CreateNamespace: apierrors.IsAlreadyExists(err) returns nil at once *)
CreateReturnsNil(result) == result = "AlreadyExists"
(* CreateNamespace: err == nil && got.Status.Phase == v1.NamespaceActive *)
PollSeesActive(result) == result = "active"
(* DeleteNamespace: apierrors.IsNotFound(err) on the Delete call *)
DeleteSeesGone(result) == result = "NotFound"
(* a poll that takes a failed Get for removal *)
PollSeesGone_AnyError(result) == result \in {"NotFound", "error"}
(* DeleteNamespace: apierrors.IsNotFound(err) on a poll *)
PollSeesGone(result) == result = "NotFound"

(***************************************************************************)
(* UserHandler.                                                            *)
(***************************************************************************)
(* the answer to the request before has reached the client *)
Delivered == last.pc # "done"
(* every handler step waits for that, and leaves the clock, the codec      *)
(* harness and the clients' tokens alone                                   *)
Fixed == Delivered /\ UNCHANGED <<now, jvars, tokens, served, call>>
(* a step that only answers *)
Answer(w, r, resp) ==
    /\ Step(w, wk, Done(r, resp))
    /\ UNCHANGED <<nsPhase, secrets, hist, authFailMsgs>>

(* Register, up to and including Namespaces().Create *)
Register(w, u, p) ==
    /\ wk[w].pc = "idle"
    /\ Fixed
    /\ \E methodOk \in BOOLEAN :
       LET e == Entry("Register", "router", NoHeader, methodOk, "")
           r0 == Enter("Register", "router", NoHeader, e)
           ns == Namespace(u)
           r1 == CallOp([r0 EXCEPT !.namespace = ns, !.user = u, !.pw = p], ns, "Namespaces.Create")
       IN  IF ~e.ok THEN Answer(w, r0, e.resp)
           ELSE \E bodyOk \in BOOLEAN :
             IF ~bodyOk
               THEN Answer(w, r0, Resp(400, "Invalid request payload"))
             ELSE \E fault \in BOOLEAN :
               LET res == IF fault THEN "error" ELSE NsCreateResult(ns)
               IN  IF res = "ok"
                     THEN /\ nsPhase' = [nsPhase EXCEPT ![ns] = "creating"]
                          /\ Step(w, wk, [r1 EXCEPT !.pc = "ns_poll",
                                                    !.accepted = TRUE])
                          /\ hist' = [hist EXCEPT ![u] =
                                        IF @ = "gone" THEN "again" ELSE @]
                          /\ UNCHANGED <<secrets, authFailMsgs>>
                   ELSE IF CreateReturnsNil(res)
                     THEN /\ Step(w, wk, [r1 EXCEPT !.pc = "reg_secret",
                                                    !.nsDone = TRUE])
                          /\ UNCHANGED <<nsPhase, secrets, hist, authFailMsgs>>
                   ELSE Answer(w, IF fault THEN Fault(r1) ELSE r1,
                               Resp(500, "Failed to create namespace"))

(* CreateNamespace: one turn of the loop that waits for Active *)
CreateNamespacePoll(w) ==
    /\ wk[w].pc = "ns_poll"
    /\ Fixed
    /\ UNCHANGED <<nsPhase, secrets, hist, authFailMsgs>>
    /\ \E fault \in BOOLEAN :
       LET r == CallOp(wk[w], wk[w].namespace, "Namespaces.Get")
           res == IF fault THEN "error" ELSE NsGetResult(r.namespace)
       IN  IF PollSeesActive(res)
             THEN Step(w, wk, [r EXCEPT !.pc = "reg_secret", !.nsDone = TRUE,
                                        !.sawActive = (res = "active")])
             ELSE Step(w, wk, r)

(* a Register that goes on to store credentials when the wait has failed *)
CreateNamespaceTimeout_Proceeds(w) ==
    /\ wk[w].pc = "ns_poll"
    /\ Fixed
    /\ Step(w, wk, [wk[w] EXCEPT !.pc = "reg_secret"])
    /\ UNCHANGED <<nsPhase, secrets, hist, authFailMsgs>>

(* CreateNamespace: the deadline passes; Register answers 500 *)
CreateNamespaceTimeout(w) ==
    /\ wk[w].pc = "ns_poll"
    /\ Fixed
    /\ Answer(w, wk[w], Resp(500, "Failed to create namespace"))

(* a Register that puts its credentials in the place of those stored *)
RegisterStore_Overwrites(w) ==
    /\ wk[w].pc = "reg_secret"
    /\ Fixed
    /\ \E fault \in BOOLEAN :
       LET r == CallOp(wk[w], wk[w].namespace, "Secrets.Create")
           ns == r.namespace
           creds == [NoData EXCEPT !["username"] = Str(r.user),
                                   !["password"] = GenerateFromPassword(r.pw)]
           res == IF fault THEN "error" ELSE SecCreateResult(ns, "credentials")
       IN  IF res \in {"ok", "AlreadyExists"}
             THEN /\ secrets' = [secrets EXCEPT ![ns]["credentials"] =
                                   [exists |-> TRUE, data |-> creds]]
                  /\ Step(w, Outdate(ns, {"credentials"}),
                          Done(r, Resp(201, "User registered successfully")))
                  /\ hist' = [hist EXCEPT ![r.user] = r.pw]
                  /\ UNCHANGED <<nsPhase, authFailMsgs>>
             ELSE Answer(w, IF fault THEN Fault(r) ELSE r,
                         Resp(500, "Failed to store credentials"))

(* Register after CreateNamespace: hash, then CreateSecret "credentials" *)
RegisterStore(w) ==
    /\ wk[w].pc = "reg_secret"
    /\ Fixed
    /\ \E fault \in BOOLEAN :
       LET r == CallOp(wk[w], wk[w].namespace, "Secrets.Create")
           ns == r.namespace
           creds == [NoData EXCEPT !["username"] = Str(r.user),
                                   !["password"] = GenerateFromPassword(r.pw)]
           res == IF fault THEN "error" ELSE SecCreateResult(ns, "credentials")
       IN  IF res = "ok"
             THEN /\ secrets' = [secrets EXCEPT ![ns]["credentials"] =
                                   [exists |-> TRUE, data |-> creds]]
                  /\ Step(w, Outdate(ns, {"credentials"}),
                          Done(r, Resp(201, "User registered successfully")))
                  /\ hist' = [hist EXCEPT ![r.user] = r.pw]
                  /\ UNCHANGED <<nsPhase, authFailMsgs>>
             ELSE Answer(w, IF fault THEN Fault(r) ELSE r,
                         Resp(500, "Failed to store credentials"))

(* Login: GetSecret "credentials", compare, Generate *)
Login(w, u, p) ==
    /\ wk[w].pc = "idle"
    /\ Fixed
    /\ UNCHANGED <<nsPhase, secrets, hist>>
    /\ \E methodOk \in BOOLEAN :
       LET e == Entry("Login", "router", NoHeader, methodOk, "")
           r0 == Enter("Login", "router", NoHeader, e)
           ns == Namespace(u)
           r1 == CallOp([r0 EXCEPT !.namespace = ns, !.user = u, !.pw = p], ns, "Secrets.Get")
           secretData == secrets[ns]["credentials"].data
           token == Generate(ProdManager, u, now, now)
       IN  IF ~e.ok
             THEN Step(w, wk, Done(r0, e.resp)) /\ UNCHANGED authFailMsgs
           ELSE \E bodyOk \in BOOLEAN :
             IF ~bodyOk
               THEN /\ Step(w, wk, Done(r0, Resp(400, "Invalid request payload")))
                    /\ UNCHANGED authFailMsgs
             ELSE \E fault \in BOOLEAN :
               LET res == IF fault THEN "error"
                          ELSE SecGetResult(ns, "credentials")
               IN  IF res # "ok"
                     THEN /\ Step(w, wk, Done(IF fault THEN Fault(r1) ELSE r1,
                                              Resp(401, "User does not exist")))
                          /\ authFailMsgs' =
                               IF fault THEN authFailMsgs
                               ELSE authFailMsgs \cup {"User does not exist"}
                   ELSE IF secretData["password"] = Absent
                     THEN /\ Step(w, wk, Done(r1, Resp(500, "Credentials not found")))
                          /\ UNCHANGED authFailMsgs
                   ELSE IF ~CompareHashAndPassword(secretData["password"], p)
                     THEN /\ Step(w, wk, Done(r1,
                                    Resp(401, "Invalid username or password")))
                          /\ authFailMsgs' =
                               authFailMsgs \cup {"Invalid username or password"}
                   ELSE /\ Step(w, wk,
                                Done(r1, [Resp(200, "Login successful") EXCEPT
                                            !.hasToken = TRUE, !.token = token]))
                        /\ UNCHANGED authFailMsgs

(* a handler that hashes whatever new password it is given *)
NewSecretData_AlwaysHash(secretData, newPassword) ==
    [secretData EXCEPT !["password"] = GenerateFromPassword(newPassword)]
(* if req.NewPassword != "": the hash of the new password replaces the     *)
(* password field of the map GetSecret returned                            *)
NewSecretData(secretData, newPassword) ==
    IF newPassword # ""
      THEN [secretData EXCEPT !["password"] = GenerateFromPassword(newPassword)]
      ELSE secretData

(* ChangeUserPassword, up to and including GetSecret "credentials" *)
ChangeUserPassword(w, via, hdr) ==
    /\ wk[w].pc = "idle"
    /\ Fixed
    /\ \E methodOk \in BOOLEAN :
       LET e == Entry("ChangeUserPassword", via, hdr, methodOk, "")
           r0 == Enter("ChangeUserPassword", via, hdr, e)
           currentUsername == UsernameFromContext(e.ctx)
           ns == Namespace(currentUsername.val)
           r1 == CallOp([r0 EXCEPT !.namespace = ns,
                                 !.user = currentUsername.val], ns, "Secrets.Get")
           secretData == secrets[ns]["credentials"].data
           called == [hist EXCEPT ![currentUsername.val] = "void"]
       IN  IF ~e.ok THEN Answer(w, r0, e.resp)
           ELSE IF ~methodOk
             THEN Answer(w, r0, Resp(405, "Method not allowed"))
           ELSE IF ~currentUsername.ok
             THEN Answer(w, r0, Resp(401, "Unauthorized"))
           ELSE /\ hist' = called
                /\ UNCHANGED <<nsPhase, secrets, authFailMsgs>>
                /\ \E bodyOk \in BOOLEAN :
                   IF ~bodyOk
                     THEN Step(w, wk, Done(r0, Resp(400, "Invalid request payload")))
                   ELSE \E fault \in BOOLEAN :
                     LET res == IF fault THEN "error"
                                ELSE SecGetResult(ns, "credentials")
                     IN  IF res # "ok"
                           THEN Step(w, wk,
                                  Done(IF fault THEN Fault(r1) ELSE r1,
                                       Resp(500, "Failed to get current credentials")))
                         ELSE \E newPassword \in Passwords \cup {""} :
                           Step(w, wk,
                             [r1 EXCEPT !.pc = "upd_get", !.name = "credentials",
                                !.pw = newPassword,
                                !.data = NewSecretData(secretData, newPassword)])

(* Client.UpdateSecret: the Get that precedes the Update *)
UpdateSecretGet(w) ==
    /\ wk[w].pc = "upd_get"
    /\ Fixed
    /\ UNCHANGED <<nsPhase, secrets, hist, authFailMsgs>>
    /\ \E fault \in BOOLEAN :
       LET r == CallOp(wk[w], wk[w].namespace, "Secrets.Get")
           res == IF fault THEN "error" ELSE SecGetResult(r.namespace, r.name)
       IN  IF res # "ok"
             THEN Step(w, wk, Done(IF fault THEN Fault(r) ELSE r,
                         IF r.route = "ChangeUserPassword"
                           THEN Resp(500, "Failed to update credentials")
                           ELSE Resp(500, "failed to update secret")))
             ELSE Step(w, wk, [r EXCEPT !.pc = "upd_put", !.fresh = TRUE])

(* Client.UpdateSecret: secret.StringData = values; Secrets(ns).Update *)
UpdateSecretPut(w) ==
    /\ wk[w].pc = "upd_put"
    /\ Fixed
    /\ \E fault \in BOOLEAN :
       LET r == CallOp(wk[w], wk[w].namespace, "Secrets.Update")
           ns == r.namespace
           res == IF fault THEN "error"
                  ELSE SecUpdateResult(ns, r.name, r.fresh)
           okResp == IF r.route = "ChangeUserPassword"
                       THEN Resp(200, "User details updated successfully")
                       ELSE [Resp(200, "") EXCEPT !.hasData = TRUE,
                                                  !.data = r.data]
           errResp == IF r.route = "ChangeUserPassword"
                        THEN Resp(500, "Failed to update credentials")
                        ELSE Resp(500, "failed to update secret")
       IN  IF res = "ok"
             THEN /\ secrets' = [secrets EXCEPT ![ns][r.name].data =
                                   MergeStringData(@, r.data)]
                  /\ Step(w, Outdate(ns, {r.name}), Done(r, okResp))
                  /\ UNCHANGED <<nsPhase, hist, authFailMsgs>>
             ELSE Answer(w, IF fault THEN Fault(r) ELSE r, errResp)

(* DeleteUser, up to and including Namespaces().Delete *)
DeleteUser(w, via, hdr) ==
    /\ wk[w].pc = "idle"
    /\ Fixed
    /\ \E methodOk \in BOOLEAN :
       LET e == Entry("DeleteUser", via, hdr, methodOk, "")
           r0 == Enter("DeleteUser", via, hdr, e)
           username == UsernameFromContext(e.ctx)
           ns == Namespace(username.val)
           r1 == CallOp([r0 EXCEPT !.namespace = ns, !.user = username.val], ns, "Namespaces.Delete")
           called == [hist EXCEPT ![username.val] = "void"]
           gone == [hist EXCEPT ![username.val] = "gone"]
       IN  IF ~e.ok THEN Answer(w, r0, e.resp)
           ELSE IF ~methodOk
             THEN Answer(w, r0, Resp(405, "Method not allowed"))
           ELSE IF ~username.ok
             THEN Answer(w, r0, Resp(401, "Unauthorized"))
           ELSE /\ UNCHANGED <<secrets, authFailMsgs>>
                /\ \E fault \in BOOLEAN :
                   LET res == IF fault THEN "error" ELSE NsDeleteResult(ns)
                   IN  IF res = "ok"
                         THEN /\ nsPhase' = [nsPhase EXCEPT ![ns] = "deleting"]
                              /\ Step(w, wk, [r1 EXCEPT !.pc = "del_poll",
                                                        !.accepted = TRUE])
                              /\ hist' = called
                       ELSE IF DeleteSeesGone(res)
                         THEN /\ Step(w, wk,
                                   Done([r1 EXCEPT !.nsDone = TRUE,
                                           !.sawNotFound = (res = "NotFound")],
                                        Resp(200, "User deleted successfully")))
                              /\ hist' = gone
                              /\ UNCHANGED nsPhase
                       ELSE /\ Step(w, wk, Done(Fault(r1),
                                     Resp(500, "Failed to delete user namespace")))
                            /\ hist' = called
                            /\ UNCHANGED nsPhase

(* DeleteNamespace: one turn of the loop that waits for NotFound *)
DeleteNamespacePoll(w) ==
    /\ wk[w].pc = "del_poll"
    /\ Fixed
    /\ UNCHANGED <<nsPhase, secrets, authFailMsgs>>
    /\ \E fault \in BOOLEAN :
       LET r == CallOp(wk[w], wk[w].namespace, "Namespaces.Get")
           res == IF fault THEN "error" ELSE NsGetResult(r.namespace)
       IN  IF PollSeesGone(res)
             THEN /\ Step(w, wk, Done([r EXCEPT !.nsDone = TRUE,
                                          !.sawNotFound = (res = "NotFound")],
                                      Resp(200, "User deleted successfully")))
                  /\ hist' = [hist EXCEPT ![r.user] = "gone"]
             ELSE Step(w, wk, r) /\ UNCHANGED hist

(* DeleteNamespace: the deadline passes; DeleteUser answers 500 *)
DeleteNamespaceTimeout(w) ==
    /\ wk[w].pc = "del_poll"
    /\ Fixed
    /\ Answer(w, wk[w], Resp(500, "Failed to delete user namespace"))

(***************************************************************************)
(* SecretsHandler.                                                         *)
(***************************************************************************)
PathNames == SecretNames \cup {""}

(* CreateSecret: POST /secrets/create/ with the name and data in the body *)
CreateSecret(w, via, hdr) ==
    /\ wk[w].pc = "idle"
    /\ Fixed
    /\ \E methodOk \in (IF via = "direct" THEN {TRUE} ELSE BOOLEAN) :
       LET e == Entry("CreateSecret", via, hdr, methodOk, "")
           r0 == Enter("CreateSecret", via, hdr, e)
           username == GetUsername(e.ctx)
           ns == Namespace(username.val)
           r1 == CallOp([r0 EXCEPT !.namespace = ns, !.user = username.val], ns, "Secrets.Create")
       IN  IF ~e.ok THEN Answer(w, r0, e.resp)
           ELSE IF ~username.ok
             THEN Answer(w, r0, Resp(500, "username not found in context"))
           ELSE \E bodyOk \in BOOLEAN :
             IF ~bodyOk
               THEN Answer(w, r0, Resp(400, "invalid request payload"))
             ELSE \E name \in PathNames :
               IF name = ""
                 THEN Answer(w, r0, Resp(400, "secret name missing"))
               ELSE \E data \in DataChoices, fault \in BOOLEAN :
                 LET res == IF fault THEN "error" ELSE SecCreateResult(ns, name)
                     r2 == [r1 EXCEPT !.name = name]
                 IN  IF res = "ok"
                       THEN /\ secrets' = [secrets EXCEPT ![ns][name] =
                                  [exists |-> TRUE,
                                   data |-> MergeStringData(NoData, data)]]
                            /\ Step(w, Outdate(ns, {name}),
                                    Done(r2, [Resp(201, "") EXCEPT
                                                !.hasData = TRUE, !.data = data]))
                            /\ UNCHANGED <<nsPhase, hist, authFailMsgs>>
                       ELSE Answer(w, IF fault THEN Fault(r2) ELSE r2,
                                   Resp(500, "failed to create secret"))

(* a GetSecret that hands the secret out once and removes it *)
GetSecret_ReadOnce(w, via, hdr) ==
    /\ wk[w].pc = "idle"
    /\ Fixed
    /\ \E methodOk \in (IF via = "direct" THEN {TRUE} ELSE BOOLEAN),
          pathName \in (IF via = "direct" THEN {""} ELSE PathNames) :
       LET e == Entry("GetSecret", via, hdr, methodOk, pathName)
           r0 == Enter("GetSecret", via, hdr, e)
           username == GetUsername(e.ctx)
           secretName == GetSecretName(e.ctx)
           ns == Namespace(username.val)
           r1 == CallOp([r0 EXCEPT !.namespace = ns, !.user = username.val,
                                 !.name = secretName.val], ns, "Secrets.Get")
       IN  IF ~e.ok THEN Answer(w, r0, e.resp)
           ELSE IF ~username.ok
             THEN Answer(w, r0, Resp(500, "username not found in context"))
           ELSE IF ~secretName.ok
             THEN Answer(w, r0, Resp(400, "secret name missing"))
           ELSE \E fault \in BOOLEAN :
             LET res == IF fault THEN "error"
                        ELSE SecGetResult(ns, secretName.val)
             IN  IF res = "NotFound"
                   THEN Answer(w, r1, Resp(404, "Secret not found in your namespace"))
                 ELSE IF res # "ok"
                   THEN Answer(w, Fault(r1), Resp(500, "failed to get secret"))
                 ELSE /\ Step(w, wk, Done(r1, [Resp(200, "") EXCEPT
                                 !.hasData = TRUE,
                                 !.data = secrets[ns][secretName.val].data]))
                      /\ secrets' = [secrets EXCEPT
                                       ![ns][secretName.val] = NoSecret]
                      /\ UNCHANGED <<nsPhase, hist, authFailMsgs>>

(* GetSecret: GET /secrets/get/{name} *)
GetSecret(w, via, hdr) ==
    /\ wk[w].pc = "idle"
    /\ Fixed
    /\ \E methodOk \in (IF via = "direct" THEN {TRUE} ELSE BOOLEAN),
          pathName \in (IF via = "direct" THEN {""} ELSE PathNames) :
       LET e == Entry("GetSecret", via, hdr, methodOk, pathName)
           r0 == Enter("GetSecret", via, hdr, e)
           username == GetUsername(e.ctx)
           secretName == GetSecretName(e.ctx)
           ns == Namespace(username.val)
           r1 == CallOp([r0 EXCEPT !.namespace = ns, !.user = username.val,
                                 !.name = secretName.val], ns, "Secrets.Get")
       IN  IF ~e.ok THEN Answer(w, r0, e.resp)
           ELSE IF ~username.ok
             THEN Answer(w, r0, Resp(500, "username not found in context"))
           ELSE IF ~secretName.ok
             THEN Answer(w, r0, Resp(400, "secret name missing"))
           ELSE \E fault \in BOOLEAN :
             LET res == IF fault THEN "error"
                        ELSE SecGetResult(ns, secretName.val)
             IN  IF res = "NotFound"
                   THEN Answer(w, r1, Resp(404, "Secret not found in your namespace"))
                 ELSE IF res # "ok"
                   THEN Answer(w, Fault(r1), Resp(500, "failed to get secret"))
                 ELSE Answer(w, r1, [Resp(200, "") EXCEPT !.hasData = TRUE,
                                !.data = secrets[ns][secretName.val].data])

(* UpdateSecret: PUT /secrets/update/{name}, up to the Get of *)
(* Client.UpdateSecret                                         *)
UpdateSecret(w, via, hdr) ==
    /\ wk[w].pc = "idle"
    /\ Fixed
    /\ UNCHANGED <<nsPhase, secrets, hist, authFailMsgs>>
    /\ \E methodOk \in (IF via = "direct" THEN {TRUE} ELSE BOOLEAN),
          pathName \in (IF via = "direct" THEN {""} ELSE PathNames) :
       LET e == Entry("UpdateSecret", via, hdr, methodOk, pathName)
           r0 == Enter("UpdateSecret", via, hdr, e)
           username == GetUsername(e.ctx)
           secretName == GetSecretName(e.ctx)
           ns == Namespace(username.val)
           r1 == CallOp([r0 EXCEPT !.namespace = ns, !.user = username.val,
                                 !.name = secretName.val], ns, "Secrets.Get")
       IN  IF ~e.ok THEN Step(w, wk, Done(r0, e.resp))
           ELSE IF ~username.ok
             THEN Step(w, wk, Done(r0, Resp(500, "username not found in context")))
           ELSE IF ~secretName.ok
             THEN Step(w, wk, Done(r0, Resp(400, "secret name missing")))
           ELSE \E bodyOk \in BOOLEAN :
             IF ~bodyOk
               THEN Step(w, wk, Done(r0, Resp(400, "invalid request payload")))
             ELSE \E fault \in BOOLEAN :
               LET res == IF fault THEN "error"
                          ELSE SecGetResult(ns, secretName.val)
               IN  IF res # "ok"
                     THEN Step(w, wk, Done(IF fault THEN Fault(r1) ELSE r1,
                                           Resp(500, "failed to update secret")))
                   ELSE \E data \in DataChoices :
                     Step(w, wk, [r1 EXCEPT !.pc = "upd_put", !.data = data,
                                            !.fresh = TRUE])

(* a DeleteSecret that answers 204 whatever the client returned *)
DeleteSecret_Swallowing(w, via, hdr) ==
    /\ wk[w].pc = "idle"
    /\ Fixed
    /\ \E methodOk \in (IF via = "direct" THEN {TRUE} ELSE BOOLEAN),
          pathName \in (IF via = "direct" THEN {""} ELSE PathNames) :
       LET e == Entry("DeleteSecret", via, hdr, methodOk, pathName)
           r0 == Enter("DeleteSecret", via, hdr, e)
           username == GetUsername(e.ctx)
           secretName == GetSecretName(e.ctx)
           ns == Namespace(username.val)
           r1 == CallOp([r0 EXCEPT !.namespace = ns, !.user = username.val,
                                 !.name = secretName.val], ns, "Secrets.Delete")
       IN  IF ~e.ok THEN Answer(w, r0, e.resp)
           ELSE IF ~username.ok
             THEN Answer(w, r0, Resp(500, "username not found in context"))
           ELSE IF ~secretName.ok
             THEN Answer(w, r0, Resp(400, "secret name missing"))
           ELSE \E fault \in BOOLEAN :
             LET res == IF fault THEN "error"
                        ELSE SecGetResult(ns, secretName.val)
             IN  IF res = "ok"
                   THEN /\ secrets' = [secrets EXCEPT
                                         ![ns][secretName.val] = NoSecret]
                        /\ Step(w, Outdate(ns, {secretName.val}),
                                Done(r1, Resp(204, "")))
                        /\ UNCHANGED <<nsPhase, hist, authFailMsgs>>
                   ELSE Answer(w, IF fault THEN Fault(r1) ELSE r1,
                               Resp(204, ""))

(* DeleteSecret: DELETE /secrets/delete/{name} *)
DeleteSecret(w, via, hdr) ==
    /\ wk[w].pc = "idle"
    /\ Fixed
    /\ \E methodOk \in (IF via = "direct" THEN {TRUE} ELSE BOOLEAN),
          pathName \in (IF via = "direct" THEN {""} ELSE PathNames) :
       LET e == Entry("DeleteSecret", via, hdr, methodOk, pathName)
           r0 == Enter("DeleteSecret", via, hdr, e)
           username == GetUsername(e.ctx)
           secretName == GetSecretName(e.ctx)
           ns == Namespace(username.val)
           r1 == CallOp([r0 EXCEPT !.namespace = ns, !.user = username.val,
                                 !.name = secretName.val], ns, "Secrets.Delete")
       IN  IF ~e.ok THEN Answer(w, r0, e.resp)
           ELSE IF ~username.ok
             THEN Answer(w, r0, Resp(500, "username not found in context"))
           ELSE IF ~secretName.ok
             THEN Answer(w, r0, Resp(400, "secret name missing"))
           ELSE \E fault \in BOOLEAN :
             LET res == IF fault THEN "error"
                        ELSE SecGetResult(ns, secretName.val)
             IN  IF res = "ok"
                   THEN /\ secrets' = [secrets EXCEPT
                                         ![ns][secretName.val] = NoSecret]
                        /\ Step(w, Outdate(ns, {secretName.val}),
                                Done(r1, Resp(204, "")))
                        /\ UNCHANGED <<nsPhase, hist, authFailMsgs>>
                   ELSE Answer(w, IF fault THEN Fault(r1) ELSE r1,
                               Resp(500, "failed to delete secret"))

(***************************************************************************)
(* Spec: the handlers over the cluster.                                    *)
(***************************************************************************)
(* a protected route is reached through the router with some header, or    *)
(* its handler function is called on a bare request                        *)
Arrivals ==
    {<<"router", h>> : h \in RequestHeaders} \cup {<<"direct", NoHeader>>}

(* the steps of one worker *)
WorkerStep(w) ==
    \/ \E u \in Users, p \in Passwords : Register(w, u, p)
    \/ CreateNamespacePoll(w)
    \/ CreateNamespaceTimeout(w)
    \/ RegisterStore(w)
    \/ \E u \in Users, p \in Passwords : Login(w, u, p)
    \/ \E a \in Arrivals : ChangeUserPassword(w, a[1], a[2])
    \/ UpdateSecretGet(w)
    \/ UpdateSecretPut(w)
    \/ \E a \in Arrivals : DeleteUser(w, a[1], a[2])
    \/ DeleteNamespacePoll(w)
    \/ DeleteNamespaceTimeout(w)
    \/ \E a \in Arrivals : CreateSecret(w, a[1], a[2])
    \/ \E a \in Arrivals : GetSecret(w, a[1], a[2])
    \/ \E a \in Arrivals : UpdateSecret(w, a[1], a[2])
    \/ \E a \in Arrivals : DeleteSecret(w, a[1], a[2])

(* the answer reaches the client; nothing else moves before it has *)
Deliver ==
    /\ last.pc = "done"
    /\ last' = NoAnswer
    /\ UNCHANGED <<now, jvars, nsPhase, secrets, tokens, served, call, wk, hist, authFailMsgs>>

Next ==
    \/ Deliver
    \/ \E w \in Workers : WorkerStep(w)
    \/ \E ns \in Namespaces : BackendActivate(ns)
    \/ \E ns \in Namespaces : BackendFinalize(ns)

(***************************************************************************)
(* SpecJWT: the token codec and the middleware under a running clock.      *)
(***************************************************************************)
MinTTL == 0 - 1
MaxTTL == 3
MaxDrift == 1
Managers == [SecretKey : Keys, TokenDuration : MinTTL..MaxTTL]
NoManager == [SecretKey |-> "", TokenDuration |-> 0]

NoOrigin == [kind |-> "none", mgr |-> NoManager, t1 |-> NoExp, key |-> ""]
NoLast == [op |-> "none", mgr |-> NoManager, at |-> NoExp, hdr |-> NoHeader,
           v |-> Verify(NoManager, Malformed, 0),
           mw |-> JWTMiddleware(NoManager, NoHeader, 0)]

Init ==
    /\ now = StartTime
    /\ jtok = Malformed
    /\ jorigin = NoOrigin
    /\ jlast = NoLast
    /\ MInit

(* each run studies one application: the clock and the token move until   *)
(* the token is used, and the result of that use is then kept             *)
JTick ==
    /\ jlast.op = "none"
    /\ now < MaxTime
    /\ now' = now + 1
    /\ UNCHANGED <<jvars, mvars>>

(* j.Generate(u): the clock may advance between the two time.Now() calls *)
JGenerate(j, u) ==
    \E d \in 0..MaxDrift :
        /\ jlast.op = "none"
        /\ now + d <= MaxTime
        /\ jtok' = Generate(j, u, now, now + d)
        /\ jorigin' = [kind |-> "generated", mgr |-> j, t1 |-> now,
                       key |-> j.SecretKey]
        /\ jlast' = NoLast
        /\ now' = now + d
        /\ UNCHANGED mvars

(* a well-formed token made outside the manager, correctly signed for its  *)
(* own algorithm with whatever key its maker holds                         *)
JForge(alg, key, u) ==
    \E exp \in {NoExp, NewNumericDate(MaxTime) + TicksPerSec} :
        /\ jlast.op = "none"
        /\ jtok' = MkToken(alg, key, [Username |-> u, ExpiresAt |-> exp,
                                      IssuedAt |-> NewNumericDate(now)])
        /\ jorigin' = [kind |-> "forged", mgr |-> NoManager, t1 |-> now,
                       key |-> key]
        /\ jlast' = NoLast
        /\ UNCHANGED <<now, mvars>>

(* the payload of a generated token altered, its signature kept *)
JTamper(u) ==
    /\ jlast.op = "none"
    /\ jorigin.kind = "generated"
    /\ u # jtok.Username
    /\ jtok' = [jtok EXCEPT !.Username = u]
    /\ jorigin' = [jorigin EXCEPT !.kind = "tampered"]
    /\ jlast' = NoLast
    /\ UNCHANGED <<now, mvars>>

JHeaders(tok) ==
    {NoHeader, BareHeader(tok)} \cup {HeaderOf(s, tok) : s \in Schemes}

(* j.Verify(jtok) and JWTMiddleware(j, next) on a request carrying hdr *)
JUse(j, hdr) ==
    /\ jlast.op = "none"
    /\ jorigin.kind # "none"
    /\ jlast' = [op |-> "used", mgr |-> j, at |-> now, hdr |-> hdr,
                 v |-> Verify(j, jtok, now),
                 mw |-> JWTMiddleware(j, hdr, now)]
    /\ UNCHANGED <<now, jtok, jorigin, mvars>>

(* the managers that may verify the token: any key, the issuer's duration *)
Verifiers(origin) ==
    [SecretKey : Keys, TokenDuration : {origin.mgr.TokenDuration}]

(* Generate takes any string as the username, the empty one included *)
Identities == Users \cup {""}

JNext ==
    \/ JTick
    \/ \E j \in Managers, u \in Identities : JGenerate(j, u)
    \/ \E alg \in Algs, key \in Keys, u \in Users : JForge(alg, key, u)
    \/ \E u \in Users : JTamper(u)
    \/ \E j \in Verifiers(jorigin) : \E hdr \in JHeaders(jtok) : JUse(j, hdr)

SpecJWT == Init /\ [][JNext]_vars

Spec == Init /\ [][Next]_vars

(***************************************************************************)
(* Properties of the token codec (checked under SpecJWT).                  *)
(***************************************************************************)
Used == jlast.op = "used"
ByIssuer == Used /\ jorigin.kind = "generated" /\ jlast.mgr = jorigin.mgr
IssuerTTL == jorigin.mgr.TokenDuration

(* C3: Verify rejects every token whose signing algorithm is not HS256,    *)
(* the one algorithm Generate signs with, even when the token is well      *)
(* formed and correctly signed for its own algorithm.                      *)
C3_OnlyHS256Accepted ==
    (Used /\ jtok.wf /\ jtok.alg # "HS256") => ~jlast.v.ok

(* C4 as stated: for ttl > 0, Verify(Generate(I)) before the expiry time   *)
(* (issue time + ttl) returns identity I, and the expiry claim equals      *)
(* issue time + ttl.                                                       *)
C4_RoundTripAsStated ==
    (ByIssuer /\ IssuerTTL > 0 /\ jlast.at < jorigin.t1 + IssuerTTL)
        => /\ jlast.v.ok
           /\ jlast.v.Username = jtok.Username
           /\ jtok.ExpiresAt = jorigin.t1 + IssuerTTL

(* C4 amended: the expiry claim is issue time + ttl cut down to a whole    *)
(* second; Verify(Generate(I)) at any time before that claim returns       *)
(* identity I; and when ttl is at least one second the claim lies after    *)
(* the issue time, so the token verifies right after issuance.             *)
C4_RoundTrip ==
    (ByIssuer /\ IssuerTTL > 0)
        => /\ jtok.ExpiresAt % TicksPerSec = 0
           /\ jtok.ExpiresAt <= jorigin.t1 + IssuerTTL
           /\ jorigin.t1 + IssuerTTL < jtok.ExpiresAt + TicksPerSec
           /\ (jlast.at < jtok.ExpiresAt
                 => jlast.v.ok /\ jlast.v.Username = jtok.Username)
           /\ (IssuerTTL >= TicksPerSec => jorigin.t1 < jtok.ExpiresAt)

C4_Witness ==
    /\ ByIssuer /\ IssuerTTL > 0
    /\ jlast.at < jtok.ExpiresAt
    /\ jlast.v.ok /\ jlast.v.Username \in Users
    /\ jtok.ExpiresAt < jorigin.t1 + IssuerTTL

(* C5: Verify fails once the clock exceeds issue time + ttl, with no       *)
(* leeway; a token generated with ttl <= 0 never verifies; and the         *)
(* middleware answers a request carrying such a token with 401.            *)
C5_Expiry ==
    (ByIssuer /\ (jlast.at > jorigin.t1 + IssuerTTL \/ IssuerTTL <= 0))
        => /\ ~jlast.v.ok
           /\ jlast.v.err = "token is expired"
           /\ ~jlast.mw.pass
           /\ jlast.mw.status = 401

C5_Witness ==
    /\ ByIssuer /\ IssuerTTL > 0
    /\ jlast.at = jorigin.t1 + IssuerTTL + 1
    /\ jlast.hdr = HeaderOf("Bearer", jtok)
    /\ ~jlast.v.ok
    /\ jlast.mw.status = 401 /\ jlast.mw.msg = "Invalid or expired token"

(* C6: a token generated under key K1 is rejected by Verify configured     *)
(* with any other key K2.                                                  *)
C6_WrongKeyRejected ==
    (Used /\ jorigin.kind = "generated"
          /\ jlast.mgr.SecretKey # jorigin.mgr.SecretKey)
        => ~jlast.v.ok

C6_Witness ==
    /\ Used /\ jorigin.kind = "generated"
    /\ jlast.mgr.SecretKey # jorigin.mgr.SecretKey
    /\ jlast.at < jtok.ExpiresAt
    /\ jlast.v.err = "signature is invalid"

(***************************************************************************)
(* Properties of the handlers, checked under Spec.                         *)
(***************************************************************************)
(* the requests on record: the one answered last and those in progress *)
Requests == {last} \cup {wk[w] : w \in Workers}

(* the request a step of worker w has advanced or answered *)
Advanced(w) == IF last'.pc = "done" THEN last' ELSE wk'[w]

(* a step of the cluster itself *)
ClusterStep == \E ns \in Namespaces : BackendActivate(ns) \/ BackendFinalize(ns)

(* C1: every backend call of a request that passed the middleware with a   *)
(* token naming A addresses only the scope "user-"+A; a step of such a     *)
(* request changes no secret and no phase of any other scope, and what     *)
(* GetSecret returns is the secret of that name in A's scope.  (A step of  *)
(* Next that is neither the cluster's nor a delivery is a worker's.)       *)
C1_Isolation ==
    [][\A w \in Workers : (~ClusterStep /\ ~Deliver) =>
         LET r == Advanced(w)
             A == r.hdr.rest.Username
         IN  r.passed =>
               /\ r.calls \subseteq {<<"user-", A>>}
               /\ \A B \in Users \ {A} :
                    /\ secrets'[<<"user-", B>>] = secrets[<<"user-", B>>]
                    /\ nsPhase'[<<"user-", B>>] = nsPhase[<<"user-", B>>]
               /\ (r.route = "GetSecret" /\ r.resp.hasData) =>
                    r.resp.data = secrets[<<"user-", A>>][r.name].data]_vars

(* a has deleted a secret of its own while b holds one of the same name *)
C1_Witness ==
    /\ last.pc = "done" /\ last.route = "DeleteSecret" /\ last.passed
    /\ last.hdr.rest.Username = "a" /\ last.resp.status = 204
    /\ secrets[<<"user-", "b">>][last.name].exists
    /\ ~secrets[<<"user-", "a">>][last.name].exists

(* C2: a Login that reached the backend without a transient fault, for an  *)
(* identity with no ChangeUserPassword and no unfinished DeleteUser since  *)
(* its registration, succeeds exactly when the secret is the one of the    *)
(* last successful Register and DeleteUser has not succeeded since.        *)
C2_LoginIffRegistered ==
    (/\ last.pc = "done" /\ last.route = "Login" /\ last.calls # {}
     /\ ~last.faulted /\ hist[last.user] # "void")
        => (last.resp.status = 200 <=> hist[last.user] = last.pw)

(* a token that is malformed, signed with another key than the service's, *)
(* or past its expiry; a header that carries no such "Bearer <token>"      *)
TokenFails(tok) ==
    \/ ~tok.wf
    \/ tok.sig[2] # ProdManager.SecretKey
    \/ tok.ExpiresAt # NoExp /\ tok.ExpiresAt <= now
BadAuthorization(hdr) ==
    \/ ~hdr.present
    \/ hdr.scheme \notin {"Bearer", "bearer"}
    \/ TokenFails(hdr.rest)

(* C7: a request that reached a protected route through the router with no *)
(* Authorization header, a header that is not "Bearer <token>", or a token *)
(* that is malformed, signed with another key or expired, is answered 401  *)
(* at once: the handler is not invoked and no backend call is made.        *)
C7_Unauthorized ==
    \A r \in Requests :
        (r.route \in ProtectedRoutes /\ r.via = "router"
            /\ BadAuthorization(r.hdr))
        => (/\ r.pc = "done" /\ r.resp.status = 401
            /\ ~r.passed /\ ~r.invoked /\ r.calls = {})

(* an expired token, presented as Bearer on DeleteUser, was turned away    *)
(* while the namespace it names holds credentials                          *)
C7_Witness ==
    /\ last.pc = "done" /\ last.route = "DeleteUser" /\ last.via = "router"
    /\ last.hdr.scheme = "Bearer" /\ last.hdr.rest.wf
    /\ last.hdr.rest.sig[2] = ProdManager.SecretKey
    /\ last.hdr.rest.ExpiresAt <= now
    /\ last.resp.status = 401
    /\ secrets[<<"user-", last.hdr.rest.Username>>]["credentials"].exists

(* C8: Login answers a nonexistent identity and a wrong secret with one    *)
(* and the same message.                                                   *)
C8_SameFailureAnswer == Cardinality(authFailMsgs) <= 1

(* C9: CreateNamespace returns nil only after one of its polls observed    *)
(* the namespace Active, so Register stores credentials only then.         *)
C9_NilOnlyAfterActive ==
    \A r \in Requests : (r.route = "Register" /\ r.nsDone) => r.sawActive

(* C10: DeleteNamespace returns nil only when the backend reported the     *)
(* namespace NotFound, on the Delete call or on a poll; the namespace is   *)
(* absent when DeleteUser answers success.                                 *)
C10_NilOnlyAfterNotFound ==
    \A r \in Requests :
        (r.route = "DeleteUser" /\ r.nsDone)
        => (/\ r.sawNotFound
            /\ r.pc = "done" /\ r.resp.status = 200
            /\ nsPhase[r.namespace] = "absent")

(* DeleteUser answered success after the Delete call had been accepted     *)
(* and a later poll found the namespace gone                               *)
C10_Witness ==
    /\ last.pc = "done" /\ last.route = "DeleteUser" /\ last.nsDone
    /\ last.accepted /\ last.resp.status = 200 /\ last.sawNotFound

(* C11: when the wait of DeleteNamespace ends with the namespace still     *)
(* present, the call has cleared the finalizers with a finalize-update     *)
(* (and polled a second window) before DeleteUser reports the failure.     *)
C11_ForcedFinalizeOnTimeout ==
    (last.pc = "done" /\ last.route = "DeleteUser" /\ last.accepted
        /\ ~last.nsDone)
    => "Namespaces.Finalize" \in last.ops

(* C13: a Register whose CreateNamespace has not returned nil changes no   *)
(* secret; answered after the body was read, it answers 500 and has made   *)
(* no Secrets call.                                                        *)
C13_NoRecordWithoutScope ==
    [][\A w \in Workers : (~ClusterStep /\ ~Deliver) =>
         LET r == Advanced(w)
         IN  (r.route = "Register" /\ ~r.nsDone) =>
               /\ secrets' = secrets
               /\ r.ops \subseteq {"Namespaces.Create", "Namespaces.Get"}
               /\ (r.pc = "done" /\ r.user # "") => r.resp.status = 500]_vars

(* Register gave up waiting for a namespace it had created, and the        *)
(* identity has no credentials                                             *)
C13_Witness ==
    /\ last.pc = "done" /\ last.route = "Register" /\ last.accepted
    /\ ~last.nsDone /\ last.resp.status = 500
    /\ "Namespaces.Get" \in last.ops
    /\ ~secrets[last.namespace]["credentials"].exists

(* C15: a Register that finds a credential record in the namespace is      *)
(* answered 409 Conflict.                                                  *)
C15_DuplicateIsConflict ==
    (/\ last.pc = "done" /\ last.route = "Register"
     /\ "Secrets.Create" \in last.ops /\ ~last.faulted
     /\ last.resp.status # 201)
        => last.resp.status = 409

(* C16: Login that reached the backend answers 401 without a token when    *)
(* the credential record is absent or the stored hash is not one of the    *)
(* password sent; a token is issued only with 200, only when the stored    *)
(* hash is one of the password sent, and it names the identity of the      *)
(* request and verifies.                                                   *)
C16_LoginOutcome ==
    (last.pc = "done" /\ last.route = "Login" /\ last.calls # {})
    => LET rec == secrets[<<"user-", last.user>>]["credentials"]
           stored == rec.data["password"]
           matches == rec.exists /\ stored = <<"bcrypt", last.pw>>
       IN  /\ (~rec.exists \/ (stored # Absent /\ ~matches))
                => (last.resp.status = 401 /\ ~last.resp.hasToken)
           /\ last.resp.hasToken
                => /\ matches /\ ~last.faulted /\ last.resp.status = 200
                   /\ last.resp.token.Username = last.user
                   /\ Verify(ProdManager, last.resp.token, now).ok
           /\ (matches /\ ~last.faulted) => last.resp.hasToken

(* a wrong password was turned away for a registered identity *)
C16_Witness ==
    /\ last.pc = "done" /\ last.route = "Login" /\ last.calls # {}
    /\ secrets[<<"user-", last.user>>]["credentials"].exists
    /\ hist[last.user] \in Passwords /\ hist[last.user] # last.pw
    /\ last.resp.status = 401 /\ ~last.resp.hasToken

(* the secret routes *)
SecretRoutes == {"CreateSecret", "GetSecret", "UpdateSecret", "DeleteSecret"}

(* C17: no step of a request on a secret route creates, changes or deletes *)
(* the secret "credentials" of any namespace, and none returns it.         *)
C17_CredentialRecordUntouched ==
    [][\A w \in Workers : (~ClusterStep /\ ~Deliver) =>
         LET r == Advanced(w)
         IN  r.route \in SecretRoutes =>
               /\ \A ns \in Namespaces :
                    secrets'[ns]["credentials"] = secrets[ns]["credentials"]
               /\ ~(r.pc = "done" /\ r.name = "credentials"
                      /\ r.resp.hasData)]_vars

(* C18: when DeleteUser answers success the namespace is absent, it holds  *)
(* no secret, and the request made none but Namespaces calls.              *)
C18_DeletedScopeIsEmpty ==
    (last.pc = "done" /\ last.route = "DeleteUser" /\ last.resp.status = 200)
    => /\ nsPhase[last.namespace] = "absent"
       /\ \A n \in SecretNames : ~secrets[last.namespace][n].exists
       /\ last.ops \subseteq {"Namespaces.Delete", "Namespaces.Get"}

(* DeleteUser succeeded by waiting out the removal of a namespace of a     *)
(* registered identity                                                     *)
C18_Witness ==
    /\ last.pc = "done" /\ last.route = "DeleteUser" /\ last.resp.status = 200
    /\ last.accepted /\ "Namespaces.Get" \in last.ops
    /\ hist[last.user] = "gone"

(* DeleteUser has succeeded for u, and no Register has succeeded since *)
Deleted(u) == hist[u] \in {"gone", "again"}

(* C19 as stated: once DeleteUser has succeeded for I, GetSecret with a    *)
(* token of I is answered 401 or 404.                                      *)
C19_OldTokenFailsAsStated ==
    (/\ last.pc = "done" /\ last.route = "GetSecret" /\ last.via = "router"
     /\ last.hdr.present /\ last.hdr.rest.wf /\ ~last.faulted
     /\ last.passed => last.invoked    \* not turned away as 405 or 400
     /\ Deleted(last.hdr.rest.Username))
        => last.resp.status \in {401, 404}

(* C19: once DeleteUser has succeeded for I, and as long as no later       *)
(* Register has created the namespace of I anew, GetSecret with a token of *)
(* I is answered 401 or 404 and returns no data.                           *)
C19_OldTokenFails ==
    (/\ last.pc = "done" /\ last.route = "GetSecret" /\ last.via = "router"
     /\ last.hdr.present /\ last.hdr.rest.wf /\ ~last.faulted
     /\ last.passed => last.invoked    \* not turned away as 405 or 400
     /\ hist[last.hdr.rest.Username] = "gone")
        => (last.resp.status \in {401, 404} /\ ~last.resp.hasData)

(* the token still passed the middleware, and GetSecret found nothing *)
C19_Witness ==
    /\ last.pc = "done" /\ last.route = "GetSecret" /\ last.passed
    /\ hist[last.hdr.rest.Username] = "gone"
    /\ last.resp.status = 404 /\ "Secrets.Get" \in last.ops

(* C20: whether a token presented on a protected route passes, and as      *)
(* whom, is decided by the token, the key and the clock alone: whatever    *)
(* was registered, changed or deleted, the request passes the middleware   *)
(* exactly when the token is well-formed, signed with the service's key    *)
(* and unexpired, and then carries the identity the token names.           *)
C20_VerifyIsStateless ==
    \A r \in Requests :
        (r.route \in ProtectedRoutes /\ r.via = "router" /\ r.pc # "idle")
        => /\ r.passed <=> ~BadAuthorization(r.hdr)
           /\ r.passed => (r.ctx.hasUsername
                             /\ r.ctx.username = r.hdr.rest.Username)

(* a token of a deleted identity passed the middleware on DeleteSecret *)
C20_Witness ==
    /\ last.pc = "done" /\ last.route = "DeleteSecret" /\ last.passed
    /\ hist[last.hdr.rest.Username] = "gone"
    /\ nsPhase[<<"user-", last.hdr.rest.Username>>] = "absent"

(* C21 as stated: a ChangeUserPassword that answers success has left every *)
(* field of the credential record but the hash as it was, and the hash it  *)
(* leaves verifies the new password of the request.                        *)
C21_OnlyHashReplaced ==
    [][\A w \in Workers :
         (~ClusterStep /\ ~Deliver) =>
           LET r == Advanced(w)
           IN  (r.pc = "done" /\ r.route = "ChangeUserPassword"
                  /\ r.resp.status = 200) =>
                 /\ \A k \in DataKeys \ {"password"} :
                      secrets'[r.namespace]["credentials"].data[k]
                        = secrets[r.namespace]["credentials"].data[k]
                 /\ CompareHashAndPassword(
                      secrets'[r.namespace]["credentials"].data["password"],
                      r.pw)]_vars

(* C21: a ChangeUserPassword with a non-empty new password that answers   *)
(* success has left every field of the credential record but the hash as   *)
(* it was, and the hash it leaves verifies the new password.               *)
C21_OnlyHashReplacedNonEmpty ==
    [][\A w \in Workers :
         (~ClusterStep /\ ~Deliver) =>
           LET r == Advanced(w)
           IN  (r.pc = "done" /\ r.route = "ChangeUserPassword"
                  /\ r.resp.status = 200 /\ r.pw # "") =>
                 /\ \A k \in DataKeys \ {"password"} :
                      secrets'[r.namespace]["credentials"].data[k]
                        = secrets[r.namespace]["credentials"].data[k]
                 /\ CompareHashAndPassword(
                      secrets'[r.namespace]["credentials"].data["password"],
                      r.pw)]_vars

(* a password was changed to another one, the username kept *)
C21_Witness ==
    /\ last.pc = "done" /\ last.route = "ChangeUserPassword"
    /\ last.resp.status = 200 /\ last.pw = "p2"
    /\ secrets[last.namespace]["credentials"].data["username"] = Str(last.user)
    /\ secrets[last.namespace]["credentials"].data["password"]
         = GenerateFromPassword("p2")
    /\ hist[last.user] = "void"

(* what Login answers to a well-formed POST for u and p when the cluster   *)
(* holds the secrets sec and answers the Get                               *)
LoginStatus(sec, u, p) ==
    LET secret == sec[Namespace(u)]["credentials"]
    IN  IF ~secret.exists THEN 401
        ELSE IF secret.data["password"] = Absent THEN 500
        ELSE IF ~CompareHashAndPassword(secret.data["password"], p) THEN 401
        ELSE 200

(* C22 as stated: when ChangeUserPassword answers success to a request     *)
(* whose new password differs from the one Login accepted until then, a    *)
(* Login with the old password is answered 401 from then on and a Login    *)
(* with the new one succeeds.                                              *)
C22_OldOutNewIn ==
    [][\A w \in Workers :
         (~ClusterStep /\ ~Deliver) =>
           LET r == Advanced(w)
           IN  (r.pc = "done" /\ r.route = "ChangeUserPassword"
                  /\ r.resp.status = 200) =>
                 \A old \in Passwords :
                   (LoginStatus(secrets, r.user, old) = 200 /\ old # r.pw) =>
                     /\ LoginStatus(secrets', r.user, old) = 401
                     /\ LoginStatus(secrets', r.user, r.pw) = 200]_vars

(* C22: when ChangeUserPassword answers success to a request whose new     *)
(* password is not empty and differs from the one Login accepted until     *)
(* then, Login with the old password is answered 401 and Login with the    *)
(* new one succeeds.                                                       *)
C22_OldOutNewInNonEmpty ==
    [][\A w \in Workers :
         (~ClusterStep /\ ~Deliver) =>
           LET r == Advanced(w)
           IN  (r.pc = "done" /\ r.route = "ChangeUserPassword"
                  /\ r.resp.status = 200 /\ r.pw # "") =>
                 \A old \in Passwords :
                   (LoginStatus(secrets, r.user, old) = 200 /\ old # r.pw) =>
                     /\ LoginStatus(secrets', r.user, old) = 401
                     /\ LoginStatus(secrets', r.user, r.pw) = 200]_vars

(* after a change from p1 to p2, p2 logs in and p1 does not *)
C22_Witness ==
    /\ last.pc = "done" /\ last.route = "ChangeUserPassword"
    /\ last.resp.status = 200 /\ last.pw = "p2"
    /\ LoginStatus(secrets, last.user, "p2") = 200
    /\ LoginStatus(secrets, last.user, "p1") = 401

(* C37: a ChangeUserPassword with an empty new password whose backend      *)
(* calls succeed answers success; the stored secrets are then what they    *)
(* were, so Login answers every password as before and does not accept     *)
(* the empty one.                                                          *)
C37_EmptyChangesNothing ==
    [][\A w \in Workers :
         (~ClusterStep /\ ~Deliver) =>
           LET r == Advanced(w)
           IN  (/\ r.pc = "done" /\ r.route = "ChangeUserPassword"
                /\ r.pw = "" /\ "Secrets.Update" \in r.ops) =>
                 /\ (~r.faulted /\ secrets[r.namespace]["credentials"].exists)
                      => r.resp = Resp(200, "User details updated successfully")
                 /\ secrets' = secrets
                 /\ \A p \in Passwords \cup {""} :
                      LoginStatus(secrets', r.user, p)
                        = LoginStatus(secrets, r.user, p)
                 /\ LoginStatus(secrets', r.user, "") # 200]_vars

(* an empty change was answered with success and the password registered   *)
(* still logs in                                                           *)
C37_Witness ==
    /\ last.pc = "done" /\ last.route = "ChangeUserPassword"
    /\ last.resp.status = 200 /\ last.pw = ""
    /\ "Secrets.Update" \in last.ops
    /\ \E p \in Passwords : LoginStatus(secrets, last.user, p) = 200

(* C23: ChangeUserPassword, DeleteUser and the four secret handlers, called *)
(* on a request that carries no identity, answer a failure (Unauthorized   *)
(* from the two user handlers once the method is the right one), make no   *)
(* backend call, and leave the namespaces and the secrets as they were.    *)
C23_NoIdentityNoCall ==
    [][\A w \in Workers :
         (~ClusterStep /\ ~Deliver) =>
           LET r == Advanced(w)
           IN  (r.via = "direct" /\ r.route \in ProtectedRoutes) =>
                 /\ r.pc = "done"
                 /\ r.calls = {} /\ r.ops = {}
                 /\ IF r.route \in {"ChangeUserPassword", "DeleteUser"}
                      THEN \/ r.resp = Resp(401, "Unauthorized")
                           \/ r.resp = Resp(405, "Method not allowed")
                      ELSE r.resp = Resp(500, "username not found in context")
                 /\ UNCHANGED <<nsPhase, secrets, hist>>]_vars

(* DeleteUser called without identity while a registered user's scope is   *)
(* there to be deleted                                                     *)
C23_Witness ==
    /\ last.pc = "done" /\ last.via = "direct" /\ last.route = "DeleteUser"
    /\ last.resp = Resp(401, "Unauthorized")
    /\ \E u \in Users :
         /\ nsPhase[Namespace(u)] = "active"
         /\ secrets[Namespace(u)]["credentials"] # NoSecret

(* C24: in a request the middleware let through, the identity the handler  *)
(* reads from its context is the one the token names, under a wrapper that *)
(* adds the secret name as well as without one, and it is the identity     *)
(* whose scope the handler goes on to address.                             *)
C24_ContextIdentityIsTokens ==
    \A r \in Requests :
      r.passed =>
        /\ GetUsername(r.ctx) = [val |-> r.hdr.rest.Username, ok |-> TRUE]
        /\ UsernameFromContext(r.ctx) = GetUsername(r.ctx)
        /\ r.calls # {} => /\ r.user = r.hdr.rest.Username
                           /\ r.namespace = <<"user-", r.hdr.rest.Username>>

(* a handler behind the secret-name wrapper has read the identity and       *)
(* called the backend with it                                              *)
C24_Witness ==
    /\ last.pc = "done" /\ last.passed /\ last.route = "GetSecret"
    /\ GetSecretName(last.ctx).ok
    /\ last.calls # {} /\ last.resp.status = 200

(* C25 (SpecJWT): GetUsername on a context to which WithUsername attached  *)
(* an identity returns that identity and ok = true, the empty string       *)
(* included, and with a secret name attached on top as well; on a context  *)
(* nothing was attached to it returns ok = false.  So it is for the        *)
(* context the middleware hands on: after a token was accepted the lookup  *)
(* gives the token's identity with ok = true, and a context that never     *)
(* went through WithUsername gives ok = false.                             *)
C25_AbsentIsNotEmpty ==
    /\ \A u \in Identities :
         /\ GetUsername(WithUsername(EmptyCtx, u)) = [val |-> u, ok |-> TRUE]
         /\ \A n \in SecretNames :
              GetUsername(WithSecretName(WithUsername(EmptyCtx, u), n))
                = [val |-> u, ok |-> TRUE]
    /\ ~GetUsername(EmptyCtx).ok
    /\ \A n \in SecretNames : ~GetUsername(WithSecretName(EmptyCtx, n)).ok
    /\ Used =>
         IF jlast.mw.pass
           THEN GetUsername(jlast.mw.ctx) = [val |-> jtok.Username, ok |-> TRUE]
           ELSE ~GetUsername(jlast.mw.ctx).ok

(* the middleware accepted a token issued for the empty identity *)
C25_Witness ==
    /\ Used /\ jlast.mw.pass /\ jorigin.kind = "generated"
    /\ jtok.Username = ""
    /\ GetUsername(jlast.mw.ctx) = [val |-> "", ok |-> TRUE]

(* C36: a step of Login or of GetSecret, whatever it answers, leaves the   *)
(* phase of every namespace and every stored secret as they were.          *)
C36_ReadsChangeNothing ==
    [][\A w \in Workers :
         (~ClusterStep /\ ~Deliver) =>
           ((Advanced(w).route \in {"Login", "GetSecret"}) =>
              UNCHANGED <<nsPhase, secrets>>)]_vars

(* GetSecret returned the data of a stored secret, which is still stored *)
C36_Witness ==
    /\ last.pc = "done" /\ last.route = "GetSecret"
    /\ last.resp.status = 200 /\ last.resp.hasData
    /\ secrets[last.namespace][last.name].exists
    /\ secrets[last.namespace][last.name].data = last.resp.data

(* C35: a Register that finds the namespace of its user already there (its *)
(* Namespaces().Create is answered AlreadyExists) is not answered with an  *)
(* error for that: it goes on to CreateSecret.  When the namespace is      *)
(* Active and holds no credentials, and the cluster answers, that Register *)
(* is answered 201 and the credentials stored accept its password.         *)
C35_RegisterRetriable ==
    [][\A w \in Workers :
         (~ClusterStep /\ ~Deliver) =>
           LET r == Advanced(w)
           IN  (/\ r.pc = "done" /\ r.route = "Register"
                /\ "Namespaces.Create" \in r.ops
                /\ ~r.accepted /\ ~r.faulted) =>
                 /\ "Secrets.Create" \in r.ops
                 /\ (/\ nsPhase[r.namespace] = "active"
                     /\ ~secrets[r.namespace]["credentials"].exists) =>
                       /\ r.resp = Resp(201, "User registered successfully")
                       /\ LoginStatus(secrets', r.user, r.pw) = 200]_vars

(* a Register that did not create the namespace itself and did not wait    *)
(* for it stored the credentials in the Active namespace                   *)
C35_Witness ==
    /\ last.pc = "done" /\ last.route = "Register"
    /\ last.resp.status = 201
    /\ ~last.accepted /\ ~last.sawActive /\ ~last.faulted
    /\ nsPhase[last.namespace] = "active"
    /\ LoginStatus(secrets, last.user, last.pw) = 200

(* the backend call that the answer of a secret route rests on failed: the *)
(* transport did, or the cluster refused the call in the state it was in   *)
BackendFailed(w, r) ==
    \/ r.faulted
    \/ r.route = "CreateSecret" /\ SecCreateResult(r.namespace, r.name) # "ok"
    \/ r.route \in {"GetSecret", "DeleteSecret"}
          /\ SecGetResult(r.namespace, r.name) # "ok"
    \/ r.route = "UpdateSecret"
          /\ IF "Secrets.Update" \in r.ops
               THEN SecUpdateResult(r.namespace, r.name, wk[w].fresh) # "ok"
               ELSE SecGetResult(r.namespace, r.name) # "ok"

(* C31: when the backend call of CreateSecret, GetSecret, UpdateSecret or  *)
(* DeleteSecret fails, the handler answers an error and no data: 404 when  *)
(* the Get of GetSecret finds no secret, 500 in every other case; and      *)
(* nothing is written.                                                     *)
C31_ErrorsReachTheCaller ==
    [][\A w \in Workers :
         (~ClusterStep /\ ~Deliver) =>
           LET r == Advanced(w)
           IN  (/\ r.pc = "done" /\ r.route \in SecretRoutes
                /\ r.ops # {} /\ BackendFailed(w, r)) =>
                 /\ r.resp.status = IF r.route = "GetSecret" /\ ~r.faulted
                                      THEN 404 ELSE 500
                 /\ ~r.resp.hasData
                 /\ secrets' = secrets]_vars

(* an Update refused by the cluster after its Get had succeeded *)
C31_Witness ==
    /\ last.pc = "done" /\ last.route = "UpdateSecret"
    /\ last.ops = {"Secrets.Get", "Secrets.Update"}
    /\ ~last.faulted /\ last.resp.status = 500

(* the order of the phases of a namespace *)
LifecycleEdges ==
    {<<"absent", "creating">>, <<"creating", "active">>,
     <<"active", "deleting">>, <<"deleting", "absent">>}

(* C32 as stated: a namespace changes phase only along absent, creating,   *)
(* active, deleting, absent, and a step of a handler writes a secret       *)
(* (the credentials or any other) only in a namespace that is Active.      *)
C32_Lifecycle ==
    [][/\ \A ns \in Namespaces :
            \/ nsPhase'[ns] = nsPhase[ns]
            \/ <<nsPhase[ns], nsPhase'[ns]>> \in LifecycleEdges
       /\ ~ClusterStep =>
            \A ns \in Namespaces :
              secrets'[ns] # secrets[ns] => nsPhase[ns] = "active"]_vars

(***************************************************************************)
(* SpecWait: Client.CreateNamespace and Client.DeleteNamespace called one  *)
(* after the other against the cluster, with the clock running: the wait   *)
(* loops with their deadlines, poll by poll.  (Spec lets the deadline      *)
(* strike at any turn of the loop; here it is counted.)                    *)
(***************************************************************************)
(* timeout := 10 * time.Second, timeout := 30 * time.Second and            *)
(* time.Sleep(200 * time.Millisecond), scaled to ticks                     *)
CreateTimeout == 2
DeleteTimeout == 3
PollInterval == 1

TimeoutOf(kind) == IF kind = "create" THEN CreateTimeout ELSE DeleteTimeout

(* a loop that never looks at its deadline *)
Before_NoDeadline(t, deadline) == TRUE
(* time.Now().Before(deadline) *)
Before(t, deadline) == t < deadline

(* the call the harness makes next starts from the one that has returned *)
NextCall(kind, ns) ==
    [NoCall EXCEPT !.kind = kind, !.ns = ns,
                   !.prev = IF call.pc = "returned"
                              THEN [kind |-> call.kind, ns |-> call.ns,
                                    result |-> call.result]
                              ELSE NoPrev]
Returned(c, result) == [c EXCEPT !.pc = "returned", !.result = result]

(* Client.CreateNamespace up to the wait loop *)
WaitCreate(ns) ==
    /\ call.pc # "polling"
    /\ now + CreateTimeout + PollInterval <= MaxTime
    /\ \E fault \in BOOLEAN :
       LET res == IF fault THEN "error" ELSE NsCreateResult(ns)
           c == [NextCall("create", ns) EXCEPT !.faulted = fault]
       IN  IF res = "ok"
             THEN /\ nsPhase' = [nsPhase EXCEPT ![ns] = "creating"]
                  /\ call' = [c EXCEPT !.pc = "polling",
                                       !.deadline = now + CreateTimeout]
           ELSE IF CreateReturnsNil(res)
             THEN call' = Returned(c, "nil") /\ UNCHANGED nsPhase
           ELSE call' = Returned(c, "error") /\ UNCHANGED nsPhase
    /\ UNCHANGED <<now, jvars, secrets, tokens, served, wk, last, hist, authFailMsgs>>

(* Client.DeleteNamespace up to the wait loop *)
WaitDelete(ns) ==
    /\ call.pc # "polling"
    /\ now + DeleteTimeout + PollInterval <= MaxTime
    /\ \E fault \in BOOLEAN :
       LET res == IF fault THEN "error" ELSE NsDeleteResult(ns)
           c == [NextCall("delete", ns) EXCEPT !.faulted = fault]
       IN  IF res = "ok"
             THEN /\ nsPhase' = [nsPhase EXCEPT ![ns] = "deleting"]
                  /\ call' = [c EXCEPT !.pc = "polling",
                                       !.deadline = now + DeleteTimeout]
           ELSE IF DeleteSeesGone(res)
             THEN call' = Returned(c, "nil") /\ UNCHANGED nsPhase
           ELSE call' = Returned(c, "error") /\ UNCHANGED nsPhase
    /\ UNCHANGED <<now, jvars, secrets, tokens, served, wk, last, hist, authFailMsgs>>

(* one turn of either loop: Namespaces().Get, then return nil or sleep *)
WaitPoll ==
    /\ call.pc = "polling"
    /\ Before(now, call.deadline)
    /\ \E fault \in BOOLEAN :
       LET res == IF fault THEN "error" ELSE NsGetResult(call.ns)
           seen == IF call.kind = "create" THEN PollSeesActive(res)
                   ELSE PollSeesGone(res)
           c == [call EXCEPT !.polls = @ + 1, !.faulted = @ \/ fault]
       IN  IF seen
             THEN call' = Returned(c, "nil") /\ UNCHANGED now
             ELSE /\ now + PollInterval <= MaxTime
                  /\ call' = c
                  /\ now' = now + PollInterval
    /\ UNCHANGED <<jvars, nsPhase, secrets, tokens, served, wk, last, hist,
                   authFailMsgs>>

(* the loop condition fails: the error after the loop *)
WaitDeadline ==
    /\ call.pc = "polling"
    /\ ~Before(now, call.deadline)
    /\ call' = Returned(call, "error")
    /\ UNCHANGED <<now, jvars, nsPhase, secrets, tokens, served, wk, last, hist,
                   authFailMsgs>>

WaitNext ==
    \/ \E ns \in Namespaces : WaitCreate(ns)
    \/ \E ns \in Namespaces : WaitDelete(ns)
    \/ WaitPoll
    \/ WaitDeadline
    \/ \E ns \in Namespaces : BackendActivate(ns)
    \/ \E ns \in Namespaces : BackendFinalize(ns)
    \/ JTick

(* the calling goroutine keeps running: the loop takes its next turn *)
SpecWait ==
    Init /\ [][WaitNext]_vars /\ WF_vars(WaitPoll) /\ WF_vars(WaitDeadline)

(* C12: every wait of CreateNamespace and DeleteNamespace ends: the call   *)
(* returns, nil or an error, after no more polls than fit between its      *)
(* start and its deadline.                                                 *)
C12_WaitTerminates ==
    /\ [](call.kind # "" =>
            call.polls * PollInterval < TimeoutOf(call.kind) + PollInterval)
    /\ (call.pc = "polling") ~> (call.pc = "returned")

(* DeleteNamespace gave up at its deadline after polling all the window *)
C12_Witness ==
    /\ call.pc = "returned" /\ call.kind = "delete" /\ call.result = "error"
    /\ call.polls * PollInterval >= DeleteTimeout
    /\ now >= call.deadline /\ nsPhase[call.ns] = "deleting"

(* C14: a CreateNamespace that follows a successful CreateNamespace for    *)
(* the same name returns nil, and the namespace is then Active.            *)
C14_IdempotentCreate ==
    (/\ call.pc = "returned" /\ call.kind = "create" /\ ~call.faulted
     /\ call.prev = [kind |-> "create", ns |-> call.ns, result |-> "nil"])
        => (call.result = "nil" /\ nsPhase[call.ns] = "active")

(***************************************************************************)
(* SpecStore: the four secret methods of Client called one after the other *)
(* on one namespace, with maps of several keys and values, while the       *)
(* namespace is created, reported Active, deleted and finalized.           *)
(***************************************************************************)
StoreNs == Namespace("a")
StoreKeys == {"username", "x"}
StoreValues == {Absent, Str("v1"), Str("v2")}
(* the maps a caller passes: any subset of the keys, any values *)
StoreData ==
    {d \in [DataKeys -> StoreValues] : \A k \in DataKeys \ StoreKeys : d[k] = Absent}

(* Client.GetSecret on the secrets sec: the error, or the Data of the       *)
(* object as a map of strings                                              *)
ClientGetSecret(sec, ns, name) ==
    IF sec[ns][name].exists
      THEN [err |-> FALSE, data |-> sec[ns][name].data]
      ELSE [err |-> TRUE, data |-> NoData]

(* a Delete that empties the namespace *)
RemoveSecret_All(sec, ns, name) ==
    [sec EXCEPT ![ns] = [n \in SecretNames |-> NoSecret]]
(* Secrets(ns).Delete: the object of that name is gone *)
RemoveSecret(sec, ns, name) == [sec EXCEPT ![ns][name] = NoSecret]

StoreCall(kind, name, data) ==
    [NoCall EXCEPT !.kind = kind, !.ns = StoreNs, !.name = name, !.data = data]
StoreReturn(c, res) ==
    [c EXCEPT !.pc = "returned", !.reason = IF res = "ok" THEN "" ELSE res,
              !.result = IF res = "ok" THEN "nil" ELSE "error"]
StoreIdle == call.pc \in {"idle", "returned"}
StoreFixed == UNCHANGED <<now, jvars, tokens, served, wk, last, hist, authFailMsgs>>

(* Namespaces().Create accepted *)
NamespacesCreate ==
    /\ NsCreateResult(StoreNs) = "ok"
    /\ nsPhase' = [nsPhase EXCEPT ![StoreNs] = "creating"]
    /\ UNCHANGED <<secrets, call>> /\ StoreFixed

(* Namespaces().Delete accepted *)
NamespacesDelete ==
    /\ NsDeleteResult(StoreNs) = "ok"
    /\ nsPhase[StoreNs] # "deleting"
    /\ nsPhase' = [nsPhase EXCEPT ![StoreNs] = "deleting"]
    /\ UNCHANGED <<secrets, call>> /\ StoreFixed

(* Client.CreateSecret *)
StoreCreateSecret(name, data) ==
    /\ StoreIdle
    /\ \E fault \in BOOLEAN :
       LET res == IF fault THEN "error" ELSE SecCreateResult(StoreNs, name)
           c == [StoreCall("CreateSecret", name, data) EXCEPT !.faulted = fault]
       IN  /\ call' = StoreReturn(c, res)
           /\ secrets' = IF res = "ok"
                           THEN [secrets EXCEPT ![StoreNs][name] =
                                   [exists |-> TRUE,
                                    data |-> MergeStringData(NoData, data)]]
                           ELSE secrets
    /\ UNCHANGED nsPhase /\ StoreFixed

(* Client.GetSecret *)
StoreGetSecret(name) ==
    /\ StoreIdle
    /\ \E fault \in BOOLEAN :
       LET out == ClientGetSecret(secrets, StoreNs, name)
           res == IF fault THEN "error"
                  ELSE IF out.err THEN "NotFound" ELSE "ok"
           c == [StoreCall("GetSecret", name, NoData) EXCEPT !.faulted = fault]
       IN  call' = [StoreReturn(c, res) EXCEPT
                      !.got = IF res = "ok" THEN out.data ELSE NoData]
    /\ UNCHANGED <<nsPhase, secrets>> /\ StoreFixed

(* Client.UpdateSecret: the Get *)
StoreUpdateGet(name, data) ==
    /\ StoreIdle
    /\ \E fault \in BOOLEAN :
       LET res == IF fault THEN "error" ELSE SecGetResult(StoreNs, name)
           c == [StoreCall("UpdateSecret", name, data) EXCEPT !.faulted = fault]
       IN  call' = IF res = "ok" THEN [c EXCEPT !.pc = "upd_put"]
                   ELSE StoreReturn(c, res)
    /\ UNCHANGED <<nsPhase, secrets>> /\ StoreFixed

(* Client.UpdateSecret: secret.StringData = values and the Update.  No     *)
(* other caller writes in SpecStore, so the object read is the stored one  *)
(* unless the namespace went away.                                         *)
StoreUpdatePut ==
    /\ call.pc = "upd_put"
    /\ \E fault \in BOOLEAN :
       LET res == IF fault THEN "error"
                  ELSE SecUpdateResult(call.ns, call.name, TRUE)
           c == [call EXCEPT !.faulted = fault]
       IN  /\ call' = StoreReturn(c, res)
           /\ secrets' = IF res = "ok"
                           THEN [secrets EXCEPT ![call.ns][call.name].data =
                                   MergeStringData(@, call.data)]
                           ELSE secrets
    /\ UNCHANGED nsPhase /\ StoreFixed

(* Client.DeleteSecret *)
StoreDeleteSecret(name) ==
    /\ StoreIdle
    /\ \E fault \in BOOLEAN :
       LET res == IF fault THEN "error" ELSE SecGetResult(StoreNs, name)
           c == [StoreCall("DeleteSecret", name, NoData) EXCEPT !.faulted = fault]
       IN  /\ call' = StoreReturn(c, res)
           /\ secrets' = IF res = "ok" THEN RemoveSecret(secrets, StoreNs, name)
                           ELSE secrets
    /\ UNCHANGED nsPhase /\ StoreFixed

StoreNext ==
    \/ NamespacesCreate
    \/ NamespacesDelete
    \/ BackendActivate(StoreNs)
    \/ BackendFinalize(StoreNs)
    \/ \E name \in SecretNames, data \in StoreData : StoreCreateSecret(name, data)
    \/ \E name \in SecretNames : StoreGetSecret(name)
    \/ \E name \in SecretNames, data \in StoreData : StoreUpdateGet(name, data)
    \/ StoreUpdatePut
    \/ \E name \in SecretNames : StoreDeleteSecret(name)

SpecStore == Init /\ [][StoreNext]_vars

(* a step in which a call of the given kinds returns: the steps of the     *)
(* callers leave the phase of the namespace alone, all others change it    *)
Returns(kinds) ==
    /\ nsPhase' = nsPhase
    /\ call'.pc = "returned"
    /\ call'.kind \in kinds

(* C26 as stated (SpecStore): after UpdateSecret(ns, name, data) returns   *)
(* nil, GetSecret(ns, name) returns exactly data: a key stored before and  *)
(* not in data is gone.                                                    *)
C26_FullReplace ==
    [][(Returns({"UpdateSecret"}) /\ call'.result = "nil") =>
         ClientGetSecret(secrets', call'.ns, call'.name)
           = [err |-> FALSE, data |-> call'.data]]_vars

(* C27 as stated (SpecStore): after CreateSecret or UpdateSecret with the  *)
(* map D returns nil in an Active namespace, GetSecret of that name        *)
(* returns D.                                                              *)
C27_PutGetRoundTrip ==
    [][(/\ Returns({"CreateSecret", "UpdateSecret"})
        /\ call'.result = "nil"
        /\ nsPhase'[call'.ns] = "active") =>
         /\ ~ClientGetSecret(secrets', call'.ns, call'.name).err
         /\ \A k \in DataKeys :
              ClientGetSecret(secrets', call'.ns, call'.name).data[k]
                = call'.data[k]]_vars

(* C28 (SpecStore): when DeleteSecret(ns, name) returns nil, GetSecret of  *)
(* that name fails and every other secret of the namespace is as it was;   *)
(* and a GetSecret that failed succeeds again only after a CreateSecret of *)
(* that name has returned nil.                                             *)
C28_DeletedUntilCreated ==
    [][/\ (Returns({"DeleteSecret"}) /\ call'.result = "nil") =>
           /\ ClientGetSecret(secrets', call'.ns, call'.name).err
           /\ \A n \in SecretNames \ {call'.name} :
                secrets'[call'.ns][n] = secrets[call'.ns][n]
       /\ \A n \in SecretNames :
           (/\ ClientGetSecret(secrets, StoreNs, n).err
            /\ ~ClientGetSecret(secrets', StoreNs, n).err) =>
              /\ Returns({"CreateSecret"})
              /\ call'.name = n /\ call'.result = "nil"]_vars

(* a secret was deleted while another one of the namespace stays stored *)
C28_Witness ==
    /\ call.pc = "returned" /\ call.kind = "DeleteSecret" /\ call.result = "nil"
    /\ ClientGetSecret(secrets, call.ns, call.name).err
    /\ \E n \in SecretNames \ {call.name} :
         ~ClientGetSecret(secrets, call.ns, n).err

C30_MissingNameFails ==
    [][/\ (/\ Returns({"GetSecret", "UpdateSecret", "DeleteSecret"})
           /\ ~secrets[call'.ns][call'.name].exists) =>
             /\ call'.result = "error"
             /\ ~call'.faulted => call'.reason = "NotFound"
             /\ secrets' = secrets
       /\ (nsPhase' = nsPhase /\ call'.kind = "UpdateSecret") =>
             \A n \in SecretNames :
               secrets'[StoreNs][n].exists => secrets[StoreNs][n].exists]_vars

(* UpdateSecret was refused on a missing name in an Active namespace *)
C30_Witness ==
    /\ call.pc = "returned" /\ call.kind = "UpdateSecret"
    /\ call.result = "error" /\ call.reason = "NotFound"
    /\ nsPhase[call.ns] = "active"
    /\ ~secrets[call.ns][call.name].exists
    /\ \E k \in DataKeys : call.data[k] # Absent

(***************************************************************************)
(* SpecRace: two goroutines of the HTTP server serve Register and          *)
(* ChangeUserPassword for one user at the same time, backend call by       *)
(* backend call.  The run starts before the user is registered or after    *)
(* Register has stored the first password; the answers are kept in the     *)
(* order they were delivered.                                              *)
(***************************************************************************)
MaxServed == 2
RaceWorkers == {"w1", "w2"}
RaceUser == "a"
Busy == {v \in DOMAIN wk : wk[v].pc # "idle"}

(* the state Register(RaceUser, "p1") leaves behind when it answers 201 *)
Registered ==
    /\ nsPhase = [n \in Namespaces |->
                    IF n = Namespace(RaceUser) THEN "active" ELSE "absent"]
    /\ secrets = [n \in Namespaces |-> [s \in SecretNames |->
                    IF n = Namespace(RaceUser) /\ s = "credentials"
                      THEN [exists |-> TRUE,
                            data |-> [NoData EXCEPT
                               !["username"] = Str(RaceUser),
                               !["password"] = GenerateFromPassword("p1")]]
                      ELSE NoSecret]]
    /\ hist = [u \in Users |-> IF u = RaceUser THEN "p1" ELSE ""]

RaceInit ==
    /\ now = StartTime
    /\ jtok = Malformed /\ jorigin = NoOrigin /\ jlast = NoLast
    /\ tokens = TokensOf(RaceUser)
    /\ wk = [w \in RaceWorkers |-> W0]
    /\ last = NoAnswer
    /\ authFailMsgs = {}
    /\ call = NoCall
    /\ served = <<>>
    /\ \/ Registered
       \/ /\ nsPhase = [n \in Namespaces |-> "absent"]
          /\ secrets = [n \in Namespaces |-> [s \in SecretNames |-> NoSecret]]
          /\ hist = [u \in Users |-> ""]

(* the server accepts another request *)
Accepting == Len(served) + Cardinality(Busy) < MaxServed
(* the headers of the requests that get past the middleware *)
PassingHeaders ==
    {h \in RequestHeaders : JWTMiddleware(ProdManager, h, now).pass}

RaceRegister(w) ==
    Accepting /\ \E p \in Passwords : Register(w, RaceUser, p)
RaceChangeUserPassword(w) ==
    Accepting /\ \E h \in PassingHeaders : ChangeUserPassword(w, "router", h)

(* the answer reaches the client and is put on record, with a note of      *)
(* whether another request was being served at that moment                 *)
RaceDeliver ==
    /\ last.pc = "done"
    /\ last' = NoAnswer
    /\ served' = Append(served, [route |-> last.route, pw |-> last.pw,
                                 status |-> last.resp.status,
                                 overlapped |-> Busy # {}])
    /\ UNCHANGED <<now, jvars, nsPhase, secrets, tokens, call, wk, hist,
                   authFailMsgs>>

RaceNext ==
    \/ RaceDeliver
    \/ \E w \in RaceWorkers : RaceRegister(w)
    \/ \E w \in RaceWorkers : CreateNamespacePoll(w)
    \/ \E w \in RaceWorkers : CreateNamespaceTimeout(w)
    \/ \E w \in RaceWorkers : RegisterStore(w)
    \/ \E w \in RaceWorkers : RaceChangeUserPassword(w)
    \/ \E w \in RaceWorkers : UpdateSecretGet(w)
    \/ \E w \in RaceWorkers : UpdateSecretPut(w)
    \/ \E ns \in Namespaces : BackendActivate(ns)

SpecRace == RaceInit /\ [][RaceNext]_vars

(* two requests of the route were served at the same time and both have    *)
(* been answered, the second answer being the one not yet delivered: the   *)
(* first was delivered while the other was in progress, and nothing is in  *)
(* progress now                                                            *)
BothAnswered(route) ==
    /\ Len(served) = 1 /\ served[1].overlapped /\ served[1].route = route
    /\ last.pc = "done" /\ last.route = route
    /\ Busy = {}

(* C33 as stated (SpecRace): when two overlapping ChangeUserPassword       *)
(* requests of one user have both answered 200, the credentials stored     *)
(* hold the username as before and the hash of one of the two new          *)
(* passwords, that of the request that wrote last, and Login accepts that  *)
(* password.                                                               *)
C33_LastWriterWins ==
    (/\ BothAnswered("ChangeUserPassword")
     /\ served[1].status = 200 /\ last.resp.status = 200) =>
        LET stored == secrets[Namespace(RaceUser)]["credentials"].data
        IN  /\ stored["username"] = Str(RaceUser)
            /\ stored["password"] = GenerateFromPassword(last.pw)
            /\ LoginStatus(secrets, RaceUser, last.pw) = 200

(* C34 (SpecRace): of two overlapping Register requests of one user with   *)
(* different passwords at most one is answered 201, and if one is, Login   *)
(* accepts its password and not the other's.                               *)
C34_OneRegisterWins ==
    (BothAnswered("Register") /\ served[1].pw # last.pw) =>
        /\ ~(served[1].status = 201 /\ last.resp.status = 201)
        /\ served[1].status = 201 =>
             /\ LoginStatus(secrets, RaceUser, served[1].pw) = 200
             /\ LoginStatus(secrets, RaceUser, last.pw) # 200
        /\ last.resp.status = 201 =>
             /\ LoginStatus(secrets, RaceUser, last.pw) = 200
             /\ LoginStatus(secrets, RaceUser, served[1].pw) # 200

(* the Register that came second to the namespace stored its credentials   *)
(* first and the other one was refused                                     *)
C34_Witness ==
    /\ BothAnswered("Register") /\ served[1].pw # last.pw
    /\ served[1].status = 201 /\ last.resp.status = 500
    /\ "Secrets.Create" \in last.ops /\ last.accepted /\ ~last.faulted
    /\ LoginStatus(secrets, RaceUser, served[1].pw) = 200
====
